---- MODULE Spec2Model ----
(***************************************************************************)
(* Shortcuts Helper: the interaction analysis engine.                      *)
(*                                                                         *)
(*   - Analyzer.analyzeInteraction (cooldown gate, catalog lookup, context *)
(*     filters with text aggregation and cursor tracking, learned filter,  *)
(*     session cap, selection, presentation) under specification Spec;     *)
(*   - the polling tracker's bounded event buffer (addEvent /              *)
(*     getRecentEvents) under specification SpecBuffer;                    *)
(*   - the polling analyzer's delete-word-left detector over that buffer   *)
(*     under specification SpecLegacy;                                     *)
(*   - the events that stop analyzeInteraction before selection under      *)
(*     specification SpecGating;                                           *)
(*   - StorageService's learned list under specification SpecStorage;      *)
(*   - the emitting tracker's scroll listener under specification          *)
(*     SpecScroll;                                                         *)
(*   - the array returned by getRecentEvents, held by a caller while the   *)
(*     tracker goes on, under specification SpecSnapshot;                  *)
(*   - text aggregation over long streams of edits under specification     *)
(*     SpecAggregation;                                                    *)
(*   - the comment, cursor, selection and text-edit detectors of the       *)
(*     context filters under SpecComment, SpecCursor, SpecSelection and    *)
(*     SpecDetectors;                                                      *)
(*   - selectBestShortcut as a function of its arguments under             *)
(*     specification SpecSelect;                                           *)
(*   - Analyzer.analyze called from the setInterval loop under             *)
(*     specification SpecPolling;                                          *)
(*   - analyzers constructed with every session limit under SpecSession,   *)
(*     and the tip of the day against the cooldown under SpecTips;         *)
(*   - the cursor at every column of short lines under SpecColumns;        *)
(*   - the aggregation on the AggregatedEvent objects, by reference, under *)
(*     specification SpecObjects.                                          *)
(*                                                                         *)
(* Text is a sequence of one-character strings, so that trim, startsWith,  *)
(* includes and substring are computed, not assumed.  Time is Date.now()   *)
(* in milliseconds; one handler run reads one instant.                     *)
(***************************************************************************)
EXTENDS Integers, Sequences, FiniteSets, TLC

VARIABLES
    now,          \* Date.now(), ms
    analyzer,     \* the fields of the Analyzer instance
    learned,      \* LearnedShortcutsManager: the set of learned (label, action)
    pending,      \* presentations awaiting the user's response, per shortcut
    nEvents,      \* number of events handled by analyzeInteraction so far
    last,         \* the last analyzeInteraction call: event, time, outcome,
                  \* and the state it started from
    lastResponse, \* the outcome of the last settled presentation
    run,          \* the current run of same-line insertions, from the events alone
    presented,    \* number of calls of showRecommendation so far
    events,       \* InteractionTracker.events (polling tracker)
    appended,     \* every event ever passed to addEvent, in order
    detection,    \* what detectDeleteWordLeft returned for the newest event
    store,        \* StorageService: globalState's list under LEARNED_KEY
    marked,       \* every id passed to StorageService.markAsLearned, in order
    scroller,     \* the event-emitting tracker's scroll fields
    scrolls,      \* every scroll delta it recorded and every scrollChange it emitted
    snapshot,     \* the array a caller of getRecentEvents holds (<<>>: none)
    snapshotExpected, \* what that caller has seen and done to it
    choice,       \* the last selectBestShortcut call: candidates, kind, pick
    lastAnalyzedTimestamp, \* the polling Analyzer's field
    poll,         \* the last analyze call of the polling loop and the one before
    pollRecommendationTime, \* lastRecommendationTime of the polling loop
    tipPresentedAt, \* when a tip of the day was last presented (0: never)
    objects       \* the AggregatedEvent objects allocated so far, and which of
                  \* them currentEvent and recentEvents refer to

vars == <<now, analyzer, learned, pending, nEvents, last, lastResponse, run,
          presented, events, appended, detection, store, marked,
          scroller, scrolls, snapshot, snapshotExpected,
          choice, lastAnalyzedTimestamp, poll, pollRecommendationTime,
          tipPresentedAt, objects>>

analyzerVars ==
    <<now, analyzer, learned, pending, nEvents, last, lastResponse, run, presented>>
trackerVars == <<events, appended, detection>>
storageVars == <<store, marked>>
scrollVars == <<scroller, scrolls>>
snapshotVars == <<snapshot, snapshotExpected>>
pollVars == <<lastAnalyzedTimestamp, poll, pollRecommendationTime>>

\* ------------------------------------------------------------------------
\* Bounds of the model
\* ------------------------------------------------------------------------
MaxEvents == 3
MaxCandidates == 3
MaxLineLength == 3
MaxMoves == 2
MaxPolledEvents == 3
MaxPollClock == 5001
ConfiguredSessionLimit == 2
StartTime == 700000
MaxAppend == 52
MaxClock == 1
MaxLegacyEvents == 5
MaxMarks == 4
MaxScrolls == 5
MaxEdits == 55
FreeEdits == 3
PasteLength == 60

\* ------------------------------------------------------------------------
\* Program constants
\* ------------------------------------------------------------------------
DefaultCooldownInterval == 300000
MAX_QUEUE_SIZE == 50
MAX_EVENT_TEXT_LENGTH == 100
CONFIG_COOLDOWN_INTERVAL == 5000
POLL_INTERVAL == 1000
CTRL_BACKSPACE_DEBOUNCE == 600000
COMMENT_DEBOUNCE == 600000
TYPING_BUFFER == 500
MIN_MULTI_CURSOR_LENGTH == 3
MIN_DUPLICATE_LENGTH == 3
FULL_DELETE_COUNT == 5
MAX_EVENTS == 50
SCROLL_WINDOW == 2000
SCROLL_LINES_THRESHOLD == 50
SCROLL_EVENT_INTERVAL == 600000
DELETE_WORD_THRESHOLD == 3

\* ------------------------------------------------------------------------
\* Strings: sequences of characters
\* ------------------------------------------------------------------------
Min(a, b) == IF a < b THEN a ELSE b
Max(a, b) == IF a > b THEN a ELSE b
Abs(a) == IF a < 0 THEN 0 - a ELSE a

Whitespace == {" ", "\t", "\n"}

RECURSIVE TrimStart(_)
TrimStart(s) ==
    IF s # <<>> /\ Head(s) \in Whitespace THEN TrimStart(Tail(s)) ELSE s

RECURSIVE TrimEnd(_)
TrimEnd(s) ==
    IF s # <<>> /\ s[Len(s)] \in Whitespace
    THEN TrimEnd(SubSeq(s, 1, Len(s) - 1))
    ELSE s

Trim(s) == TrimEnd(TrimStart(s))

StartsWith(s, p) == Len(p) <= Len(s) /\ SubSeq(s, 1, Len(p)) = p

EndsWith(s, p) == Len(p) <= Len(s) /\ SubSeq(s, Len(s) - Len(p) + 1, Len(s)) = p

Includes(s, p) ==
    \E i \in 1..(Len(s) - Len(p) + 1) : SubSeq(s, i, i + Len(p) - 1) = p

\* String.prototype.substring(start, end), 0-based, end exclusive
Substring(s, start, end) ==
    SubSeq(s, Min(Max(start, 0), Len(s)) + 1, Min(Max(end, 0), Len(s)))

\* TextLine.firstNonWhitespaceCharacterIndex: the line length when all blank
FirstNonWhitespaceCharacterIndex(s) == Len(s) - Len(TrimStart(s))

\* ------------------------------------------------------------------------
\* Key-combo labels used by the detectors and the selection policy
\* ------------------------------------------------------------------------
Ctrl == <<"C", "t", "r", "l">>
Alt == <<"A", "l", "t">>
Shift == <<"S", "h", "i", "f", "t">>
Plus == <<"+">>

K_CtrlSlash == Ctrl \o Plus \o <<"/">>
K_CtrlBackspace == Ctrl \o Plus \o <<"B", "a", "c", "k", "s", "p", "a", "c", "e">>
K_CtrlAltPrefix == Ctrl \o Plus \o Alt \o Plus
K_AltClick == Alt \o Plus \o <<"C", "l", "i", "c", "k">>
K_CtrlD == Ctrl \o Plus \o <<"D">>
K_CtrlF2 == Ctrl \o Plus \o <<"F", "2">>
K_ShiftAltPrefix == Shift \o Plus \o Alt \o Plus
K_CtrlC == Ctrl \o Plus \o <<"C">>
K_CtrlShiftK == Ctrl \o Plus \o Shift \o Plus \o <<"K">>
K_CtrlX == Ctrl \o Plus \o <<"X">>
K_FnLeft == <<"F", "n", "+", "←">>
K_FnRight == <<"F", "n", "+", "→">>
K_ShiftAltRight == Shift \o Plus \o Alt \o Plus \o <<"→">>
K_CtrlKV == Ctrl \o Plus \o <<"K", " ", "V">>
K_CtrlShiftV == Ctrl \o Plus \o Shift \o Plus \o <<"V">>
K_CtrlUpDown == Ctrl \o Plus \o <<"↑", " ", "/", " ">> \o Ctrl \o Plus \o <<"↓">>
\* the element "BACKTICK" stands for the one grave-accent character
K_CtrlBacktick == Ctrl \o Plus \o <<"BACKTICK">>
K_AltTab == Alt \o Plus \o <<"T", "a", "b">>
K_F5 == <<"F", "5">>
K_ShiftF5 == Shift \o Plus \o <<"F", "5">>
K_F9 == <<"F", "9">>
K_F10 == <<"F", "1", "0">>
K_CtrlS == Ctrl \o Plus \o <<"S">>
K_CtrlKS == Ctrl \o Plus \o <<"K", " ", "S">>
K_CtrlP == Ctrl \o Plus \o <<"P">>
K_CtrlB == Ctrl \o Plus \o <<"B">>

\* ------------------------------------------------------------------------
\* The shortcut catalog (ShortcutsLoader)
\* ------------------------------------------------------------------------
Shortcut(label, action) == [shortcut |-> label, action |-> action]

S_Comment == Shortcut(K_CtrlSlash, <<"c", "o", "m", "m", "e", "n", "t">>)
S_DeleteWord == Shortcut(K_CtrlBackspace, <<"d", "e", "l", "w", "o", "r", "d">>)
S_LineStart == Shortcut(K_FnLeft, <<"h", "o", "m", "e">>)
S_LineEnd == Shortcut(K_FnRight, <<"e", "n", "d">>)
S_Save == Shortcut(K_CtrlS, <<"s", "a", "v", "e">>)
S_SaveAll == Shortcut(K_CtrlKS, <<"s", "a", "v", "e", " ", "a", "l", "l">>)
S_TipGoToFile == Shortcut(K_CtrlP, <<"g", "o", " ", "t", "o", " ", "f", "i", "l", "e">>)
S_TipSidebar == Shortcut(K_CtrlB, <<"s", "i", "d", "e", "b", "a", "r">>)

getShortcutsByType(type) ==
    CASE type = "textChange" ->
            <<S_Comment, S_DeleteWord,
              Shortcut(K_ShiftAltPrefix \o <<"↓">>, <<"c", "o", "p", "y">>),
              Shortcut(K_CtrlD, <<"n", "e", "x", "t">>),
              Shortcut(K_CtrlAltPrefix \o <<"↑">>, <<"c", "u", "r", "s", "o", "r">>),
              Shortcut(K_CtrlShiftK, <<"d", "e", "l", "l", "i", "n", "e">>)>>
      [] type = "selectionChange" ->
            <<S_LineStart, S_LineEnd,
              Shortcut(K_ShiftAltRight, <<"e", "x", "p", "a", "n", "d">>)>>
      [] type = "fileSave" -> <<S_Save, S_SaveAll>>
      [] type = "tipOfTheDay" -> <<S_TipGoToFile, S_TipSidebar>>
      [] OTHER -> <<>>

AllShortcuts ==
    UNION {{getShortcutsByType(type)[i] :
                i \in 1..Len(getShortcutsByType(type))} :
           type \in {"textChange", "selectionChange", "fileSave", "tipOfTheDay"}}

\* ------------------------------------------------------------------------
\* LearnedShortcutsManager
\* ------------------------------------------------------------------------
LearnedId(label, action) == <<label, action>>

isLearned(lrn, label, action) == LearnedId(label, action) \in lrn

markAsLearned(lrn, label, action) == lrn \cup {LearnedId(label, action)}


\* ------------------------------------------------------------------------
\* Events delivered to analyzeInteraction
\*   hasContext: the kind's context payload is present (changes non-empty,
\*     editor and selections, document, state, terminal)
\*   text, rangeLength, line: changes[0] of a textChange
\*   editor, doc, lang: vscode.window.activeTextEditor (textChange) or
\*     context.editor (selectionChange) and its document after the change
\*   selStart, selEnd, active: selections[0]
\* ------------------------------------------------------------------------
Position(l, c) == [line |-> l, character |-> c]

TextEvent(text, rangeLength, line, doc, lang) ==
    [type |-> "textChange", hasContext |-> TRUE, text |-> text,
     rangeLength |-> rangeLength, line |-> line, editor |-> TRUE, doc |-> doc,
     lang |-> lang, selStart |-> Position(0, 0), selEnd |-> Position(0, 0),
     active |-> Position(0, 0), isMarkdown |-> FALSE]

SelectionEvent(selStart, selEnd, active, doc) ==
    [type |-> "selectionChange", hasContext |-> TRUE, text |-> <<>>,
     rangeLength |-> 0, line |-> 0, editor |-> TRUE, doc |-> doc,
     lang |-> "python", selStart |-> selStart, selEnd |-> selEnd,
     active |-> active, isMarkdown |-> FALSE]

PlainEvent(type, hasContext) ==
    [type |-> type, hasContext |-> hasContext, text |-> <<>>,
     rangeLength |-> 0, line |-> 0, editor |-> TRUE, doc |-> <<>>,
     lang |-> "python", selStart |-> Position(0, 0), selEnd |-> Position(0, 0),
     active |-> Position(0, 0), isMarkdown |-> FALSE]

\* TextDocument.lineAt(line).text, lines numbered from 0
LineAt(doc, line) == doc[line + 1]

LineCount(doc) == Len(doc)

\* ------------------------------------------------------------------------
\* Analyzer: aggregation of text edits
\* ------------------------------------------------------------------------
AggregatedEvent(eventType, text, line, count, timestamp) ==
    [eventType |-> eventType, text |-> text, line |-> line, count |-> count,
     timestamp |-> timestamp]

\* Variant: a full queue drops the aggregate pushed
pushToQueueDropNewest(queue, event) ==
    IF Len(queue) >= MAX_QUEUE_SIZE THEN queue ELSE Append(queue, event)

pushToQueue(queue, event) ==
    LET pushed == Append(queue, event)
    IN  IF Len(pushed) > MAX_QUEUE_SIZE THEN Tail(pushed) ELSE pushed

\* Variant: an edit on the open aggregate's line extends it whatever its
\* direction
aggregateTextChangeAnyDirection(a, event, t) ==
    LET isAddition == Len(event.text) > 0
        eventType == IF isAddition THEN "add" ELSE "delete"
        amount == IF isAddition THEN Len(event.text) ELSE event.rangeLength
        a1 == [a EXCEPT !.lastTextChangeTime = t]
    IN  IF /\ a1.currentEvent # <<>>
           /\ a1.currentEvent[1].line = event.line
        THEN LET cur == a1.currentEvent[1]
                 remaining == MAX_EVENT_TEXT_LENGTH - Len(cur.text)
                 text == IF isAddition /\ Len(cur.text) < MAX_EVENT_TEXT_LENGTH
                         THEN cur.text \o Substring(event.text, 0, remaining)
                         ELSE cur.text
             IN  [a1 EXCEPT !.currentEvent =
                     <<[cur EXCEPT !.timestamp = t,
                                   !.count = cur.count + amount,
                                   !.text = text]>>]
        ELSE [a1 EXCEPT
                !.recentEvents =
                    IF a1.currentEvent # <<>>
                    THEN pushToQueue(a1.recentEvents, a1.currentEvent[1])
                    ELSE a1.recentEvents,
                !.currentEvent =
                    <<AggregatedEvent(
                        eventType,
                        IF isAddition
                        THEN Substring(event.text, 0, MAX_EVENT_TEXT_LENGTH)
                        ELSE <<>>,
                        event.line, amount, t)>>]

\* filterTextChange, "1. Event Aggregation" (with lastTextChangeTime)
aggregateTextChange(a, event, t) ==
    LET isAddition == Len(event.text) > 0
        eventType == IF isAddition THEN "add" ELSE "delete"
        amount == IF isAddition THEN Len(event.text) ELSE event.rangeLength
        a1 == [a EXCEPT !.lastTextChangeTime = t]
    IN  IF /\ a1.currentEvent # <<>>
           /\ a1.currentEvent[1].line = event.line
           /\ a1.currentEvent[1].eventType = eventType
        THEN LET cur == a1.currentEvent[1]
                 remaining == MAX_EVENT_TEXT_LENGTH - Len(cur.text)
                 text == IF isAddition /\ Len(cur.text) < MAX_EVENT_TEXT_LENGTH
                         THEN cur.text \o Substring(event.text, 0, remaining)
                         ELSE cur.text
             IN  [a1 EXCEPT !.currentEvent =
                     <<[cur EXCEPT !.timestamp = t,
                                   !.count = cur.count + amount,
                                   !.text = text]>>]
        ELSE [a1 EXCEPT
                !.recentEvents =
                    IF a1.currentEvent # <<>>
                    THEN pushToQueue(a1.recentEvents, a1.currentEvent[1])
                    ELSE a1.recentEvents,
                !.currentEvent =
                    <<AggregatedEvent(
                        eventType,
                        IF isAddition
                        THEN Substring(event.text, 0, MAX_EVENT_TEXT_LENGTH)
                        ELSE <<>>,
                        event.line, amount, t)>>]

\* No AggregatedEvent object allocated: currentEvent null (0), recentEvents
\* empty
NoObjects == [cells |-> <<>>, currentEvent |-> 0, recentEvents |-> <<>>]

\* Variant: a new aggregate is started in the object just pushed
aggregateInPlaceReusing(o, event, t) ==
    LET isAddition == Len(event.text) > 0
        eventType == IF isAddition THEN "add" ELSE "delete"
        amount == IF isAddition THEN Len(event.text) ELSE event.rangeLength
        fresh == AggregatedEvent(
                     eventType,
                     IF isAddition
                     THEN Substring(event.text, 0, MAX_EVENT_TEXT_LENGTH)
                     ELSE <<>>,
                     event.line, amount, t)
    IN  IF /\ o.currentEvent # 0
           /\ o.cells[o.currentEvent].line = event.line
           /\ o.cells[o.currentEvent].eventType = eventType
        THEN LET cur == o.cells[o.currentEvent]
                 remaining == MAX_EVENT_TEXT_LENGTH - Len(cur.text)
                 text == IF isAddition /\ Len(cur.text) < MAX_EVENT_TEXT_LENGTH
                         THEN cur.text \o Substring(event.text, 0, remaining)
                         ELSE cur.text
             IN  [o EXCEPT !.cells[o.currentEvent] =
                     [cur EXCEPT !.timestamp = t,
                                 !.count = cur.count + amount,
                                 !.text = text]]
        ELSE IF o.currentEvent # 0
             THEN [o EXCEPT
                     !.recentEvents = pushToQueue(o.recentEvents, o.currentEvent),
                     !.cells[o.currentEvent] = fresh]
             ELSE [cells |-> Append(o.cells, fresh),
                   currentEvent |-> Len(o.cells) + 1,
                   recentEvents |-> o.recentEvents]

\* "1. Event Aggregation" on the objects themselves: this.currentEvent is
\* written through the reference, pushToQueue pushes the reference, and the
\* object literal allocates
aggregateInPlace(o, event, t) ==
    LET isAddition == Len(event.text) > 0
        eventType == IF isAddition THEN "add" ELSE "delete"
        amount == IF isAddition THEN Len(event.text) ELSE event.rangeLength
        fresh == AggregatedEvent(
                     eventType,
                     IF isAddition
                     THEN Substring(event.text, 0, MAX_EVENT_TEXT_LENGTH)
                     ELSE <<>>,
                     event.line, amount, t)
    IN  IF /\ o.currentEvent # 0
           /\ o.cells[o.currentEvent].line = event.line
           /\ o.cells[o.currentEvent].eventType = eventType
        THEN LET cur == o.cells[o.currentEvent]
                 remaining == MAX_EVENT_TEXT_LENGTH - Len(cur.text)
                 text == IF isAddition /\ Len(cur.text) < MAX_EVENT_TEXT_LENGTH
                         THEN cur.text \o Substring(event.text, 0, remaining)
                         ELSE cur.text
             IN  [o EXCEPT !.cells[o.currentEvent] =
                     [cur EXCEPT !.timestamp = t,
                                 !.count = cur.count + amount,
                                 !.text = text]]
        ELSE [cells |-> Append(o.cells, fresh),
              currentEvent |-> Len(o.cells) + 1,
              recentEvents |->
                  IF o.currentEvent # 0
                  THEN pushToQueue(o.recentEvents, o.currentEvent)
                  ELSE o.recentEvents]

\* ------------------------------------------------------------------------
\* Analyzer: the text detectors of filterTextChange
\* ------------------------------------------------------------------------
Filter(shortcuts, Test(_)) == SelectSeq(shortcuts, Test)

\* Variant: closed aggregates on the open aggregate's own line match too
detectMultiCursorSameLine(a, shortcuts) ==
    LET current == a.currentEvent[1]
        currentTextTrimmed == Trim(current.text)
        matchIdx == {i \in 1..Len(a.recentEvents) :
                        /\ a.recentEvents[i].eventType = "add"
                        /\ Trim(a.recentEvents[i].text) = currentTextTrimmed}
    IN  IF current.eventType = "add"
           /\ Len(currentTextTrimmed) > MIN_MULTI_CURSOR_LENGTH
           /\ matchIdx # {}
        THEN IF \E i \in matchIdx :
                    Abs(a.recentEvents[i].line - current.line) = 1
             THEN Filter(shortcuts,
                         LAMBDA s : Includes(s.shortcut, K_CtrlAltPrefix))
             ELSE Filter(shortcuts,
                         LAMBDA s : \/ Includes(s.shortcut, K_AltClick)
                                    \/ Includes(s.shortcut, K_CtrlD)
                                    \/ Includes(s.shortcut, K_CtrlF2))
        ELSE <<>>

\* Multi-Cursor Editing Detection
detectMultiCursor(a, shortcuts) ==
    LET current == a.currentEvent[1]
        currentTextTrimmed == Trim(current.text)
        matchIdx == {i \in 1..Len(a.recentEvents) :
                        /\ a.recentEvents[i].eventType = "add"
                        /\ a.recentEvents[i].line # current.line
                        /\ Trim(a.recentEvents[i].text) = currentTextTrimmed}
    IN  IF current.eventType = "add"
           /\ Len(currentTextTrimmed) > MIN_MULTI_CURSOR_LENGTH
           /\ matchIdx # {}
        THEN IF \E i \in matchIdx :
                    Abs(a.recentEvents[i].line - current.line) = 1
             THEN Filter(shortcuts,
                         LAMBDA s : Includes(s.shortcut, K_CtrlAltPrefix))
             ELSE Filter(shortcuts,
                         LAMBDA s : \/ Includes(s.shortcut, K_AltClick)
                                    \/ Includes(s.shortcut, K_CtrlD)
                                    \/ Includes(s.shortcut, K_CtrlF2))
        ELSE <<>>

\* Line Duplication Detection
detectLineDuplication(a, shortcuts, event) ==
    LET current == a.currentEvent[1]
        lineText == Trim(LineAt(event.doc, current.line))
        neighbors == {current.line - 2, current.line - 1,
                      current.line + 1, current.line + 2}
    IN  IF /\ current.eventType = "add"
           /\ Len(lineText) > MIN_DUPLICATE_LENGTH
           /\ current.count > 0
           /\ \E checkLine \in neighbors :
                 /\ checkLine >= 0
                 /\ checkLine < LineCount(event.doc)
                 /\ Trim(LineAt(event.doc, checkLine)) = lineText
        THEN Filter(shortcuts,
                    LAMBDA s : \/ Includes(s.shortcut, K_ShiftAltPrefix)
                               \/ Includes(s.shortcut, K_CtrlC))
        ELSE <<>>

\* Variant: the word-delete recommendation never debounced
ctrlBackspaceDebouncedNever(a, t) == FALSE

\* The 10 minute debounce of the word-delete recommendation
ctrlBackspaceDebounced(a, t) ==
    ~(t - a.lastCtrlBackSpaceRecTime > CTRL_BACKSPACE_DEBOUNCE)

\* Deletion detection: [a |-> the analyzer after it, out |-> its shortcuts]
detectDeletion(a, shortcuts, event, t) ==
    LET current == a.currentEvent[1]
        isLineEmpty == Len(Trim(LineAt(event.doc, current.line))) = 0
        deletionShortcuts ==
            Filter(shortcuts, LAMBDA s : Includes(s.shortcut, K_CtrlBackspace))
    IN  IF current.eventType = "delete" /\ current.count >= FULL_DELETE_COUNT
        THEN IF isLineEmpty
             THEN [a |-> a,
                   out |-> Filter(shortcuts,
                              LAMBDA s : \/ Includes(s.shortcut, K_CtrlShiftK)
                                         \/ Includes(s.shortcut, K_CtrlX))]
             ELSE IF ~ctrlBackspaceDebounced(a, t) /\ Len(deletionShortcuts) > 0
                  THEN [a |-> [a EXCEPT !.lastCtrlBackSpaceRecTime = t],
                        out |-> deletionShortcuts]
                  ELSE [a |-> a, out |-> <<>>]
        ELSE [a |-> a, out |-> <<>>]

\* "Simple language mapping"
commentCharOf(lang) ==
    CASE lang \in {"typescript", "javascript", "java", "c", "cpp", "csharp",
                   "go", "rust", "jsonc"} -> <<"/", "/">>
      [] lang \in {"python", "ruby", "perl", "yaml", "shellscript",
                   "dockerfile"} -> <<"#">>
      [] lang \in {"html", "xml"} -> <<"<", "!", "-", "-">>
      [] lang \in {"css", "less", "scss"} -> <<"/", "*">>
      [] OTHER -> <<>>

isCommentAction(current, lineText, commentChar) ==
    \/ current.eventType = "add" /\ StartsWith(lineText, commentChar)
    \/ /\ current.eventType = "delete"
       /\ ~StartsWith(lineText, commentChar)
       /\ current.count <= Len(commentChar) + 1

\* The 10 minute debounce of the comment recommendation
commentDebounced(a, t) ==
    ~(t - a.lastCommentRecommendationTime > COMMENT_DEBOUNCE)

\* Comment detection: [a |-> the analyzer after it, out |-> its shortcuts]
detectComment(a, shortcuts, event, t) ==
    LET current == a.currentEvent[1]
        commentChar == commentCharOf(event.lang)
        lineText == Trim(LineAt(event.doc, current.line))
    IN  IF /\ commentChar # <<>>
           /\ isCommentAction(current, lineText, commentChar)
           /\ ~commentDebounced(a, t)
        THEN [a |-> [a EXCEPT !.lastCommentRecommendationTime = t],
              out |-> Filter(shortcuts, LAMBDA s : s.shortcut = K_CtrlSlash)]
        ELSE [a |-> a, out |-> <<>>]

\* Variant: the line-duplication check made before the multi-cursor check
filterTextChangeDuplicateFirst(a, shortcuts, event, t) ==
    IF ~event.hasContext
    THEN [a |-> a, out |-> <<>>]
    ELSE LET a1 == aggregateTextChange(a, event, t)
             multi == detectMultiCursor(a1, shortcuts)
         IN  IF ~event.editor
             THEN [a |-> a1, out |-> multi]
             ELSE LET dup == detectLineDuplication(a1, shortcuts, event)
                      del == detectDeletion(a1, shortcuts, event, t)
                      com == detectComment(del.a, shortcuts, event, t)
                  IN  [a |-> com.a,
                       out |-> dup \o multi \o del.out \o com.out]

filterTextChange(a, shortcuts, event, t) ==
    IF ~event.hasContext
    THEN [a |-> a, out |-> <<>>]
    ELSE LET a1 == aggregateTextChange(a, event, t)
             multi == detectMultiCursor(a1, shortcuts)
         IN  IF ~event.editor
             THEN [a |-> a1, out |-> multi]
             ELSE LET dup == detectLineDuplication(a1, shortcuts, event)
                      del == detectDeletion(a1, shortcuts, event, t)
                      com == detectComment(del.a, shortcuts, event, t)
                  IN  [a |-> com.a,
                       out |-> multi \o dup \o del.out \o com.out]


\* ------------------------------------------------------------------------
\* Analyzer: the selection detectors of filterSelectionChange
\* ------------------------------------------------------------------------
\* Variant: the typing guard left out
isTypingNever(a, t) == FALSE

\* "Ignore if text changed recently (typing)"
isTyping(a, t) == t - a.lastTextChangeTime < TYPING_BUFFER

\* Variant: the bounds of the middle of the line off by one
isPrevMiddleInclusive(prevColumn, lineLength) ==
    prevColumn >= 0 /\ prevColumn <= lineLength

\* "Middle of line": at least 1 char from start/end
isPrevMiddle(prevColumn, lineLength) ==
    prevColumn >= 1 /\ prevColumn <= lineLength - 1

\* Variant: the previous column is not compared with the indentation
wasPastIndentAlways(prevColumn, firstNonWhitespace) == TRUE

\* The previous column lay right of the line's first non-whitespace index
wasPastIndent(prevColumn, firstNonWhitespace) ==
    prevColumn > firstNonWhitespace

filterSelectionChange(a, shortcuts, event, t) ==
    IF ~event.hasContext
    THEN [a |-> a, out |-> <<>>]
    ELSE
    LET selIsEmpty == event.selStart = event.selEnd
        currentLine == event.active.line
        currentColumn == event.active.character
        lineText == LineAt(event.doc, currentLine)
        lineLength == Len(lineText)
        firstNonWhitespace == FirstNonWhitespaceCharacterIndex(lineText)
        a1 == [a EXCEPT !.hadSelection = ~selIsEmpty]
        \* --- Cursor Movement to Line Start/End ---
        tracked == /\ selIsEmpty
                   /\ ~isTyping(a1, t)
                   /\ a1.previousCursorPosition # <<>>
                   /\ a1.previousCursorPosition[1].line = currentLine
        prevColumn == a1.previousCursorPosition[1].character
        toStart ==
            IF /\ tracked
               /\ (currentColumn = 0 \/ currentColumn = firstNonWhitespace)
               /\ isPrevMiddle(prevColumn, lineLength)
               /\ wasPastIndent(prevColumn, firstNonWhitespace)
            THEN Filter(shortcuts, LAMBDA s : Includes(s.shortcut, K_FnLeft))
            ELSE <<>>
        toEnd ==
            IF /\ tracked
               /\ currentColumn = lineLength
               /\ isPrevMiddle(prevColumn, lineLength)
            THEN Filter(shortcuts, LAMBDA s : Includes(s.shortcut, K_FnRight))
            ELSE <<>>
        a2 == [a1 EXCEPT !.previousCursorPosition =
                  IF selIsEmpty
                  THEN <<Position(currentLine, currentColumn)>>
                  ELSE <<>>]
        \* --- Full Line Selection ---
        isAllChars == /\ event.selStart.character = 0
                      /\ event.selEnd.character = lineLength
        lastNonWhitespace == Len(TrimEnd(lineText))
        isAllNonWhitespace ==
            /\ event.selStart.character <= firstNonWhitespace
            /\ event.selEnd.character >= lastNonWhitespace
            /\ ~(event.selStart.character = event.selEnd.character)
        isFullLineSelected ==
            /\ (isAllChars \/ isAllNonWhitespace)
            /\ event.selStart.line = event.selEnd.line
        wasPartialSelection ==
            /\ ~a2.previousSelection[1].isEmpty
            /\ a2.previousSelection[1].start.line = event.selStart.line
            /\ \/ a2.previousSelection[1].start.character > firstNonWhitespace
               \/ a2.previousSelection[1].end.character < lastNonWhitespace
        expand ==
            IF /\ isFullLineSelected
               /\ a2.previousSelection # <<>>
               /\ wasPartialSelection
            THEN Filter(shortcuts,
                        LAMBDA s : Includes(s.shortcut, K_ShiftAltRight))
            ELSE <<>>
        a3 == [a2 EXCEPT !.previousSelection =
                  <<[isEmpty |-> selIsEmpty,
                     start |-> event.selStart,
                     end |-> event.selEnd]>>]
    IN  [a |-> a3, out |-> toStart \o toEnd \o expand]

\* ------------------------------------------------------------------------
\* Analyzer: the other context filters
\* ------------------------------------------------------------------------
filterActiveEditorChange(shortcuts, event) ==
    IF ~event.hasContext
    THEN <<>>
    ELSE IF event.isMarkdown
         THEN Filter(shortcuts,
                     LAMBDA s : \/ Includes(s.shortcut, K_CtrlKV)
                                \/ Includes(s.shortcut, K_CtrlShiftV))
         ELSE Filter(shortcuts,
                     LAMBDA s : /\ ~Includes(s.shortcut, K_CtrlKV)
                                /\ ~Includes(s.shortcut, K_CtrlShiftV))

filterActiveTerminalChange(shortcuts, event) ==
    IF ~event.hasContext
    THEN Filter(shortcuts,
                LAMBDA s : \/ Includes(s.shortcut, K_CtrlUpDown)
                           \/ Includes(s.shortcut, K_CtrlBacktick))
    ELSE shortcuts

\* documentClose, fileSave (context.document), windowStateChange (context.state)
filterNeedsContext(shortcuts, event) ==
    IF event.hasContext THEN shortcuts ELSE <<>>

filterByContext(a, shortcuts, event, t) ==
    CASE event.type = "activeEditorChange" ->
            [a |-> a, out |-> filterActiveEditorChange(shortcuts, event)]
      [] event.type = "activeTerminalChange" ->
            [a |-> a, out |-> filterActiveTerminalChange(shortcuts, event)]
      [] event.type \in {"documentClose", "fileSave", "windowStateChange"} ->
            [a |-> a, out |-> filterNeedsContext(shortcuts, event)]
      [] event.type = "selectionChange" ->
            filterSelectionChange(a, shortcuts, event, t)
      [] event.type = "textChange" ->
            filterTextChange(a, shortcuts, event, t)
      [] OTHER -> [a |-> a, out |-> shortcuts]

\* Variant: the state-only update also restarts the cooldown
updateStateOnlyStamps(a, event, t) ==
    CASE event.type = "textChange" ->
            [filterTextChange(a, <<>>, event, t).a
                EXCEPT !.lastRecommendationTime = t]
      [] event.type = "selectionChange" ->
            [filterSelectionChange(a, <<>>, event, t).a
                EXCEPT !.lastRecommendationTime = t]
      [] OTHER -> [a EXCEPT !.lastRecommendationTime = t]

updateStateOnly(a, event, t) ==
    CASE event.type = "textChange" -> filterTextChange(a, <<>>, event, t).a
      [] event.type = "selectionChange" ->
            filterSelectionChange(a, <<>>, event, t).a
      [] OTHER -> a

\* ------------------------------------------------------------------------
\* Analyzer: selection policy.  Math.random() makes the result a set.
\* ------------------------------------------------------------------------
Range(seq) == {seq[i] : i \in 1..Len(seq)}

HasLabel(shortcuts, label) == \E i \in 1..Len(shortcuts) : shortcuts[i].shortcut = label

\* Array.prototype.find(s => s.shortcut === label), when one exists
Find(shortcuts, label) ==
    shortcuts[CHOOSE i \in 1..Len(shortcuts) :
                /\ shortcuts[i].shortcut = label
                /\ \A j \in 1..(i - 1) : shortcuts[j].shortcut # label]

selectRandomShortcut(shortcuts) == Range(shortcuts)

\* Variant: the debugging priority list in the opposite order
DebugPriorityOrderReversed == <<K_F10, K_F9, K_ShiftF5, K_F5>>

DebugPriorityOrder == <<K_F5, K_ShiftF5, K_F9, K_F10>>

\* Variant: the pick is the first shortcut catalogued for the kind
selectBestShortcutCatalogued(shortcuts, event) ==
    {getShortcutsByType(event.type)[1]}

selectBestShortcut(shortcuts, event) ==
    CASE event.type \in {"textChange", "selectionChange"} -> {shortcuts[1]}
      [] event.type = "tipOfTheDay" -> {shortcuts[1]}
      [] event.type = "activeEditorChange" ->
            {shortcuts[1]} \cup selectRandomShortcut(shortcuts)
      [] event.type = "windowStateChange" /\ HasLabel(shortcuts, K_AltTab) ->
            {Find(shortcuts, K_AltTab)}
      [] event.type = "activeTerminalChange"
            /\ HasLabel(shortcuts, K_CtrlBacktick) ->
            {Find(shortcuts, K_CtrlBacktick)}
      [] event.type = "activeTerminalChange"
            /\ ~HasLabel(shortcuts, K_CtrlBacktick)
            /\ HasLabel(shortcuts, K_CtrlUpDown) ->
            {Find(shortcuts, K_CtrlUpDown)}
      [] event.type = "debugStart"
            /\ \E k \in 1..Len(DebugPriorityOrder) :
                  HasLabel(shortcuts, DebugPriorityOrder[k]) ->
            {Find(shortcuts,
                  DebugPriorityOrder[
                      CHOOSE k \in 1..Len(DebugPriorityOrder) :
                        /\ HasLabel(shortcuts, DebugPriorityOrder[k])
                        /\ \A j \in 1..(k - 1) :
                              ~HasLabel(shortcuts, DebugPriorityOrder[j])])}
      [] OTHER -> selectRandomShortcut(shortcuts)

getShortcutKey(s) == s.shortcut \o <<":">> \o s.action


\* ------------------------------------------------------------------------
\* Analyzer.analyzeInteraction
\* ------------------------------------------------------------------------
\* Variant: the gate written with <= instead of <
isCoolingInclusive(a, event, t) ==
    /\ event.type # "tipOfTheDay"
    /\ t - a.lastRecommendationTime <= a.cooldownInterval

\* The cooldown gate
isCooling(a, event, t) ==
    /\ event.type # "tipOfTheDay"
    /\ t - a.lastRecommendationTime < a.cooldownInterval

\* Variant: the learned filter left out
unlearnedShortcutsUnfiltered(lrn, shortcuts) == shortcuts

\* contextFilteredShortcuts.filter(s => !isLearned(s.shortcut, s.action))
unlearnedShortcuts(lrn, shortcuts) ==
    Filter(shortcuts, LAMBDA s : ~isLearned(lrn, s.shortcut, s.action))

\* Variant: the cap applied one shortcut late
sessionCandidatesLate(a, unlearned) ==
    IF Cardinality(a.shownShortcuts) > a.sessionRecommendationLimit
    THEN Filter(unlearned, LAMBDA s : getShortcutKey(s) \in a.shownShortcuts)
    ELSE unlearned

\* Variant: the session cap left out
sessionCandidatesUncapped(a, unlearned) == unlearned

\* The session cap: repeat reminders only once the limit is reached
sessionCandidates(a, unlearned) ==
    IF Cardinality(a.shownShortcuts) >= a.sessionRecommendationLimit
    THEN Filter(unlearned, LAMBDA s : getShortcutKey(s) \in a.shownShortcuts)
    ELSE unlearned

\* Variant: the time of the recommendation not recorded
commitRecommendationShownOnly(a, selected, t) ==
    [a EXCEPT !.shownShortcuts = a.shownShortcuts \cup {getShortcutKey(selected)}]

\* Variant: the presented shortcut not added to the shown set
commitRecommendationTimeOnly(a, selected, t) ==
    [a EXCEPT !.lastRecommendationTime = t]

\* lastRecommendationTime = now; shownShortcuts.add(key)
commitRecommendation(a, selected, t) ==
    [a EXCEPT !.lastRecommendationTime = t,
              !.shownShortcuts = a.shownShortcuts \cup {getShortcutKey(selected)}]

Silent(a) == [a |-> a, emitted |-> <<>>, detected |-> <<>>]

\* The set of outcomes of one call at instant t: the analyzer after the
\* synchronous part, the shortcut handed to showRecommendation (if any),
\* and the list the context filter returned (if it ran).
analyzeInteraction(a, lrn, event, t) ==
    IF isCooling(a, event, t)
    THEN {Silent(updateStateOnly(a, event, t))}
    ELSE
    LET matchingShortcuts == getShortcutsByType(event.type)
    IN  IF Len(matchingShortcuts) = 0
        THEN {Silent(updateStateOnly(a, event, t))}
        ELSE
        LET filtered == filterByContext(a, matchingShortcuts, event, t)
            quiet == [a |-> updateStateOnly(filtered.a, event, t),
                      emitted |-> <<>>, detected |-> filtered.out]
        IN  IF Len(filtered.out) = 0
            THEN {quiet}
            ELSE
            LET unlearned == unlearnedShortcuts(lrn, filtered.out)
            IN  IF Len(unlearned) = 0
                THEN {quiet}
                ELSE
                LET candidates == sessionCandidates(filtered.a, unlearned)
                IN  IF Len(candidates) = 0
                    THEN {quiet}
                    ELSE {[a |-> commitRecommendation(filtered.a, selected, t),
                           emitted |-> <<selected>>,
                           detected |-> filtered.out] :
                             selected \in selectBestShortcut(candidates, event)}

\* ------------------------------------------------------------------------
\* Analyzer.showRecommendation: what happens once the awaited response is in
\* ------------------------------------------------------------------------
GotIt == "I got it! Don't show again"

\* "undefined": dismissed without a choice; "rejected": the host could not
\* show the message and the awaited promise rejects
Responses == {GotIt, "OK", "undefined", "rejected"}

\* Variant: a presentation that was not acknowledged is undone
showRecommendationResumeRollback(a, lrn, shortcut, response) ==
    [a |-> IF response \in {"undefined", "rejected"}
           THEN [a EXCEPT !.lastRecommendationTime = 0,
                          !.shownShortcuts = @ \ {getShortcutKey(shortcut)}]
           ELSE a,
     learned |-> IF response = GotIt
                 THEN markAsLearned(lrn, shortcut.shortcut, shortcut.action)
                 ELSE lrn]

\* Variant: a learned shortcut is also dropped from the shown-this-session set
showRecommendationResumeForgets(a, lrn, shortcut, response) ==
    [a |-> IF response = GotIt
           THEN [a EXCEPT !.shownShortcuts = @ \ {getShortcutKey(shortcut)}]
           ELSE a,
     learned |-> IF response = GotIt
                 THEN markAsLearned(lrn, shortcut.shortcut, shortcut.action)
                 ELSE lrn]

\* [a |-> the analyzer, learned |-> the learned set] after the response
showRecommendationResume(a, lrn, shortcut, response) ==
    [a |-> a,
     learned |-> IF response = GotIt
                 THEN markAsLearned(lrn, shortcut.shortcut, shortcut.action)
                 ELSE lrn]

\* ------------------------------------------------------------------------
\* The polling tracker's event buffer and the polling analyzer's
\* delete-word-left rule
\* ------------------------------------------------------------------------
\* An InteractionEvent of the buffer; contentChanges is data.contentChanges
BufferedEvent(type, timestamp, contentChanges) ==
    [type |-> type, timestamp |-> timestamp, contentChanges |-> contentChanges]

ContentChange(text, rangeLength) == [text |-> text, rangeLength |-> rangeLength]

\* Variant: the newest event is dropped when the buffer is full
addEventDropNewest(buffer, event) ==
    IF Len(buffer) >= MAX_EVENTS THEN buffer ELSE Append(buffer, event)

addEvent(buffer, event) ==
    LET pushed == Append(buffer, event)
    IN  IF Len(pushed) > MAX_EVENTS THEN Tail(pushed) ELSE pushed

\* [...this.events]: a fresh array with the same elements
getRecentEvents(buffer) == [i \in 1..Len(buffer) |-> buffer[i]]

\* Variant: getRecentEvents returns this.events itself
getRecentEventsArrayShared(buffer) == [shared |-> TRUE, elems |-> <<>>]

\* The array getRecentEvents returns: a new array (not the tracker's own)
\* holding the elements of the buffer
getRecentEventsArray(buffer) ==
    [shared |-> FALSE, elems |-> getRecentEvents(buffer)]

isSingleCharDeletion(e) ==
    /\ Len(e.contentChanges) = 1
    /\ e.contentChanges[1].text = <<>>
    /\ e.contentChanges[1].rangeLength = 1

\* The backward loop of detectDeleteWordLeft from index i: events that are
\* not text changes are passed over, a text change that is not a
\* one-character deletion ends the loop
RECURSIVE deletionCount(_, _)
deletionCount(evs, i) ==
    IF i = 0
    THEN 0
    ELSE IF evs[i].type = "textChange"
         THEN IF isSingleCharDeletion(evs[i])
              THEN 1 + deletionCount(evs, i - 1)
              ELSE 0
         ELSE deletionCount(evs, i - 1)

DeleteWordLeft ==
    [id |-> "deleteWordLeft", message |-> "delete word left",
     shortcut |-> K_CtrlBackspace]

\* Variant: the threshold compared with > instead of >=
detectDeleteWordLeftLate(evs, lastEvent) ==
    IF lastEvent.type # "textChange"
    THEN <<>>
    ELSE IF /\ Len(lastEvent.contentChanges) = 1
            /\ lastEvent.contentChanges[1].text = <<>>
            /\ deletionCount(evs, Len(evs)) > DELETE_WORD_THRESHOLD
         THEN <<DeleteWordLeft>>
         ELSE <<>>

detectDeleteWordLeft(evs, lastEvent) ==
    IF lastEvent.type # "textChange"
    THEN <<>>
    ELSE IF /\ Len(lastEvent.contentChanges) = 1
            /\ lastEvent.contentChanges[1].text = <<>>
            /\ deletionCount(evs, Len(evs)) >= DELETE_WORD_THRESHOLD
         THEN <<DeleteWordLeft>>
         ELSE <<>>

\* ------------------------------------------------------------------------
\* StorageService: the learned list kept in globalState
\* ------------------------------------------------------------------------
\* globalState.get(LEARNED_KEY, [])
getLearnedShortcuts(stored) == stored

\* learned.includes(shortcutId)
StorageIsLearned(stored, shortcutId) ==
    \E i \in 1..Len(getLearnedShortcuts(stored)) :
        getLearnedShortcuts(stored)[i] = shortcutId

\* Variant: the id is pushed without the includes() test
StorageMarkAsLearnedAlways(stored, shortcutId) ==
    Append(getLearnedShortcuts(stored), shortcutId)

\* The list stored after markAsLearned(shortcutId)
StorageMarkAsLearned(stored, shortcutId) ==
    IF ~StorageIsLearned(stored, shortcutId)
    THEN Append(getLearnedShortcuts(stored), shortcutId)
    ELSE stored

\* ------------------------------------------------------------------------
\* The event-emitting InteractionTracker: scroll throttling
\* ------------------------------------------------------------------------
Editors == {"editor1", "editor2"}

\* previousTopLines[editor] is <<>> while the WeakMap has no entry
NewScroller ==
    [lastScrollEventTime |-> 0,
     recentScrolls |-> <<>>,
     previousTopLines |-> [e \in Editors |-> <<>>]]

RECURSIVE SumAmounts(_)
SumAmounts(recs) ==
    IF recs = <<>> THEN 0 ELSE Head(recs).amount + SumAmounts(Tail(recs))

\* recentScrolls.filter(s => s.time >= twoSecondsAgo)
RECURSIVE KeepSince(_, _)
KeepSince(recs, since) ==
    IF recs = <<>>
    THEN <<>>
    ELSE IF Head(recs).time >= since
         THEN <<Head(recs)>> \o KeepSince(Tail(recs), since)
         ELSE KeepSince(Tail(recs), since)

\* Variant: the 10 minute test left out
onDidChangeTextEditorVisibleRangesUnthrottled(tr, editor, currentTop, t) ==
    LET prevTop == tr.previousTopLines[editor]
        tr1 == [tr EXCEPT !.previousTopLines[editor] = <<currentTop>>]
    IN  IF prevTop = <<>>
        THEN [tr |-> tr1, emitted |-> FALSE, recorded |-> <<>>]
        ELSE LET delta == Abs(currentTop - prevTop[1])
                 rec == [time |-> t, amount |-> delta]
                 window == KeepSince(Append(tr1.recentScrolls, rec),
                                     t - SCROLL_WINDOW)
             IN  IF SumAmounts(window) > SCROLL_LINES_THRESHOLD
                 THEN [tr |-> [tr1 EXCEPT !.lastScrollEventTime = t,
                                          !.recentScrolls = <<>>],
                       emitted |-> TRUE, recorded |-> <<rec>>]
                 ELSE [tr |-> [tr1 EXCEPT !.recentScrolls = window],
                       emitted |-> FALSE, recorded |-> <<rec>>]

\* The onDidChangeTextEditorVisibleRanges listener run at instant t:
\* [tr |-> the tracker after it, emitted |-> a scrollChange was emitted,
\*  recorded |-> the delta pushed to recentScrolls, if any]
onDidChangeTextEditorVisibleRanges(tr, editor, currentTop, t) ==
    LET prevTop == tr.previousTopLines[editor]
        tr1 == [tr EXCEPT !.previousTopLines[editor] = <<currentTop>>]
    IN  IF prevTop = <<>>
        THEN [tr |-> tr1, emitted |-> FALSE, recorded |-> <<>>]
        ELSE LET delta == Abs(currentTop - prevTop[1])
                 rec == [time |-> t, amount |-> delta]
                 window == KeepSince(Append(tr1.recentScrolls, rec),
                                     t - SCROLL_WINDOW)
             IN  IF /\ SumAmounts(window) > SCROLL_LINES_THRESHOLD
                    /\ t - tr1.lastScrollEventTime >= SCROLL_EVENT_INTERVAL
                 THEN [tr |-> [tr1 EXCEPT !.lastScrollEventTime = t,
                                          !.recentScrolls = <<>>],
                       emitted |-> TRUE, recorded |-> <<rec>>]
                 ELSE [tr |-> [tr1 EXCEPT !.recentScrolls = window],
                       emitted |-> FALSE, recorded |-> <<rec>>]

\* ------------------------------------------------------------------------
\* The analyzer as a state machine
\* ------------------------------------------------------------------------
NewAnalyzer ==
    [lastRecommendationTime |-> 0,
     cooldownInterval |-> DefaultCooldownInterval,
     sessionRecommendationLimit |-> ConfiguredSessionLimit,
     shownShortcuts |-> {},
     recentEvents |-> <<>>,
     currentEvent |-> <<>>,
     lastCtrlBackSpaceRecTime |-> 0,
     lastCommentRecommendationTime |-> 0,
     previousCursorPosition |-> <<>>,
     previousSelection |-> <<>>,
     hadSelection |-> FALSE,
     lastTextChangeTime |-> 0]

NothingSeen == [textChangeAt |-> 0, editAt |-> 0, selection |-> <<>>]

NoCall ==
    [event |-> PlainEvent("none", FALSE), time |-> 0, emitted |-> <<>>,
     detected |-> <<>>, pre |-> NewAnalyzer, preLearned |-> {},
     prePending |-> 0, preResponse |-> "none",
     preCommentYield |-> 0, commentYield |-> 0,
     preCommentYieldBy |-> [add |-> 0, delete |-> 0],
     commentYieldBy |-> [add |-> 0, delete |-> 0],
     preWordDeleteYield |-> 0, wordDeleteYield |-> 0,
     preSeen |-> NothingSeen, seen |-> NothingSeen]

\* What the event stream held up to and including an event: when the last
\* textChange event was handled (any, and one carrying changes), and the
\* selection of the last selectionChange event
SeenAfter(seen, event, t) ==
    [textChangeAt |-> IF event.type = "textChange" THEN t ELSE seen.textChangeAt,
     editAt |-> IF event.type = "textChange" /\ event.hasContext
                THEN t ELSE seen.editAt,
     selection |-> IF event.type = "selectionChange" /\ event.hasContext
                   THEN <<[start |-> event.selStart, end |-> event.selEnd]>>
                   ELSE seen.selection]

NoRun == [line |-> 0, chars |-> 0, n |-> 0]

\* Time that passes before an event is handled
Deltas == {1, 300000}

Hash == <<"#">>

TextEvents ==
    {TextEvent(Hash, 0, 0, <<Hash, <<"b">>>>, "python"),
     TextEvent(<<"b">>, 0, 1, <<Hash, <<"b">>>>, "python")}

SelectionEvents ==
    {SelectionEvent(Position(0, 2), Position(0, 2), Position(0, 2),
                    <<<<"a", "b", "c", "d">>>>)}

PlainEvents == {PlainEvent("fileSave", TRUE), PlainEvent("tipOfTheDay", TRUE)}

Events == TextEvents \cup SelectionEvents \cup PlainEvents

PendingCount == Cardinality({s \in AllShortcuts : pending[s] > 0})

\* The run of consecutive same-line insertions the event stream ends with,
\* computed from the events alone
RunAfter(r, event) ==
    IF event.type = "textChange" /\ event.hasContext
    THEN IF Len(event.text) > 0
         THEN IF r.n > 0 /\ r.line = event.line
              THEN [line |-> r.line, chars |-> r.chars + Len(event.text),
                    n |-> r.n + 1]
              ELSE [line |-> event.line, chars |-> Len(event.text), n |-> 1]
         ELSE NoRun
    ELSE r

InitAnalyzer ==
    /\ now = StartTime
    /\ analyzer = NewAnalyzer
    /\ learned = {}
    /\ pending = [s \in AllShortcuts |-> 0]
    /\ nEvents = 0
    /\ last = NoCall
    /\ lastResponse = "none"
    /\ run = NoRun
    /\ presented = 0

InitTracker ==
    /\ events = <<>>
    /\ appended = <<>>
    /\ detection = <<>>

InitStorage ==
    /\ store = <<>>
    /\ marked = <<>>

InitScroll ==
    /\ scroller = NewScroller
    /\ scrolls = [records |-> <<>>, emits |-> <<>>, lastEmitted |-> FALSE]

InitSnapshot ==
    /\ snapshot = <<>>
    /\ snapshotExpected = [elems |-> <<>>, takenAt |-> 0, modified |-> FALSE]

NoChoice == [shortcuts |-> <<>>, type |-> "none", selected |-> <<>>]

NoPoll ==
    [called |-> FALSE, newest |-> 0, ran |-> FALSE, result |-> <<>>,
     shown |-> FALSE, analyzed |-> {}]

InitPolling ==
    /\ choice = NoChoice
    /\ lastAnalyzedTimestamp = 0
    /\ poll = [prev |-> NoPoll, call |-> NoPoll]
    /\ pollRecommendationTime = 0
    /\ tipPresentedAt = 0
    /\ objects = NoObjects

Init ==
    /\ InitAnalyzer /\ InitTracker /\ InitStorage /\ InitScroll /\ InitSnapshot
    /\ InitPolling

\* An event is delivered d ms after the previous step and handled up to the
\* await of showRecommendation
\* One call of analyzeInteraction, d ms after the previous handler run
HandleInteraction(event, d) ==
    /\ now' = now + d
    /\ \E o \in analyzeInteraction(analyzer, learned, event, now + d) :
          /\ analyzer' = o.a
          /\ pending' = IF o.emitted = <<>>
                        THEN pending
                        ELSE [pending EXCEPT ![o.emitted[1]] = @ + 1]
          /\ presented' = presented + Len(o.emitted)
          /\ last' = [event |-> event, time |-> now + d, emitted |-> o.emitted,
                      detected |-> o.detected,
                      pre |-> analyzer, preLearned |-> learned,
                      prePending |-> PendingCount,
                      preResponse |-> lastResponse,
                      preCommentYield |-> last.commentYield,
                      commentYield |->
                          IF \E i \in 1..Len(o.detected) :
                                o.detected[i].shortcut = K_CtrlSlash
                          THEN now + d
                          ELSE last.commentYield,
                      preCommentYieldBy |-> last.commentYieldBy,
                      commentYieldBy |->
                          IF \E i \in 1..Len(o.detected) :
                                o.detected[i].shortcut = K_CtrlSlash
                          THEN [last.commentYieldBy EXCEPT
                                  ![IF Len(event.text) > 0
                                    THEN "add" ELSE "delete"] = now + d]
                          ELSE last.commentYieldBy,
                      preWordDeleteYield |-> last.wordDeleteYield,
                      wordDeleteYield |->
                          IF \E i \in 1..Len(o.detected) :
                                Includes(o.detected[i].shortcut,
                                         K_CtrlBackspace)
                          THEN now + d
                          ELSE last.wordDeleteYield,
                      preSeen |-> last.seen,
                      seen |-> SeenAfter(last.seen, event, now + d)]
    /\ nEvents' = nEvents + 1
    /\ run' = RunAfter(run, event)
    /\ UNCHANGED <<learned, lastResponse>>
    /\ UNCHANGED <<trackerVars, storageVars, scrollVars, snapshotVars,
                 choice, pollVars>>

AnalyzeInteraction(event, d) ==
    /\ nEvents < MaxEvents
    /\ HandleInteraction(event, d)
    /\ UNCHANGED <<tipPresentedAt, objects>>

\* The user's response to a pending presentation arrives (or it fails)
Respond(shortcut, response) ==
    /\ pending[shortcut] > 0
    /\ pending' = [pending EXCEPT ![shortcut] = @ - 1]
    /\ LET r == showRecommendationResume(analyzer, learned, shortcut, response)
       IN  analyzer' = r.a /\ learned' = r.learned
    /\ lastResponse' = response
    /\ UNCHANGED <<now, nEvents, last, run, presented>>
    /\ UNCHANGED <<trackerVars, storageVars, scrollVars, snapshotVars,
                 choice, pollVars,
                 tipPresentedAt, objects>>

Next ==
    \/ \E event \in Events, d \in Deltas : AnalyzeInteraction(event, d)
    \/ \E shortcut \in AllShortcuts, response \in Responses :
          Respond(shortcut, response)

Spec == Init /\ [][Next]_vars

\* ------------------------------------------------------------------------
\* The tracker as a state machine
\* ------------------------------------------------------------------------
\* onFileSave: a save notification is buffered d ms after the previous one
OnFileSave(d) ==
    /\ Len(appended) < MaxAppend
    /\ now + d <= StartTime + MaxClock
    /\ now' = now + d
    /\ LET e == BufferedEvent("fileSave", now + d, <<>>)
       IN  /\ events' = addEvent(events, e)
           /\ appended' = Append(appended, e)
    /\ UNCHANGED detection
    /\ UNCHANGED <<analyzer, learned, pending, nEvents, last, lastResponse, run,
                   presented>>
    /\ UNCHANGED <<storageVars, scrollVars, snapshotVars,
                 choice, pollVars,
                 tipPresentedAt, objects>>

NextBuffer == \E d \in {0, 1} : OnFileSave(d)

SpecBuffer == Init /\ [][NextBuffer]_vars

Deletion(n) == <<ContentChange(<<>>, n)>>

\* What onTextChange and onSelectionChange are given
LegacyInputs ==
    {[type |-> "textChange", contentChanges |-> Deletion(1)],
     [type |-> "textChange", contentChanges |-> Deletion(2)],
     [type |-> "textChange", contentChanges |-> <<ContentChange(<<"a">>, 0)>>],
     [type |-> "textChange", contentChanges |-> Deletion(1) \o Deletion(1)],
     [type |-> "selectionChange", contentChanges |-> <<>>]}

\* onTextChange / onSelectionChange buffer the event; the next poll runs the
\* delete-word-left rule on the snapshot
OnEditorEvent(input) ==
    /\ Len(appended) < MaxLegacyEvents
    /\ LET e == BufferedEvent(input.type, now, input.contentChanges)
       IN  /\ events' = addEvent(events, e)
           /\ appended' = Append(appended, e)
           /\ detection' = detectDeleteWordLeft(
                               getRecentEvents(addEvent(events, e)), e)
    /\ UNCHANGED <<analyzerVars, storageVars, scrollVars, snapshotVars,
                 choice, pollVars,
                 tipPresentedAt, objects>>

NextLegacy == \E input \in LegacyInputs : OnEditorEvent(input)

SpecLegacy == Init /\ [][NextLegacy]_vars

\* The analyzer given events of every gating outcome: a kind with nothing
\* catalogued, a save without its document, a save, a tip of the day and an
\* edit that no detector matches
GatingEvents ==
    {PlainEvent("documentClose", TRUE),
     PlainEvent("fileSave", FALSE),
     PlainEvent("fileSave", TRUE),
     PlainEvent("tipOfTheDay", TRUE),
     TextEvent(<<"b">>, 0, 1, <<Hash, <<"b">>>>, "python")}

NextGating ==
    \/ \E event \in GatingEvents, d \in Deltas : AnalyzeInteraction(event, d)
    \/ \E shortcut \in AllShortcuts, response \in Responses :
          Respond(shortcut, response)

SpecGating == Init /\ [][NextGating]_vars

\* StorageService.markAsLearned called with any id, any number of times
ShortcutIds == {"toggleLineComment", "deleteWordLeft", "copyLineDown"}

MarkAsLearned(shortcutId) ==
    /\ Len(marked) < MaxMarks
    /\ store' = StorageMarkAsLearned(store, shortcutId)
    /\ marked' = Append(marked, shortcutId)
    /\ UNCHANGED <<analyzerVars, trackerVars, scrollVars, snapshotVars,
                 choice, pollVars,
                 tipPresentedAt, objects>>

NextStorage == \E shortcutId \in ShortcutIds : MarkAsLearned(shortcutId)

SpecStorage == Init /\ [][NextStorage]_vars

\* The visible range of an editor changes
TopLines == {0, 30}

ScrollDeltas == {1000, 1500, 600000}

OnVisibleRangesChange(editor, currentTop, d) ==
    /\ Len(scrolls.records) + Cardinality({e \in Editors :
            scroller.previousTopLines[e] # <<>>}) < MaxScrolls
    /\ now' = now + d
    /\ LET r == onDidChangeTextEditorVisibleRanges(scroller, editor, currentTop,
                                                   now + d)
           records == scrolls.records \o r.recorded
       IN  /\ scroller' = r.tr
           /\ scrolls' =
                [records |-> records,
                 emits |-> IF r.emitted
                           THEN Append(scrolls.emits,
                                       [time |-> now + d, upTo |-> Len(records)])
                           ELSE scrolls.emits,
                 lastEmitted |-> r.emitted]
    /\ UNCHANGED <<analyzer, learned, pending, nEvents, last, lastResponse, run,
                   presented>>
    /\ UNCHANGED <<trackerVars, storageVars, snapshotVars,
                 choice, pollVars,
                 tipPresentedAt, objects>>

NextScroll ==
    \E editor \in Editors, currentTop \in TopLines, d \in ScrollDeltas :
        OnVisibleRangesChange(editor, currentTop, d)

SpecScroll == Init /\ [][NextScroll]_vars

\* The caller asks for the recent events when the buffer is empty, holds one
\* event, is one short of full, is full, and after the first eviction
SnapshotPoints == {0, 1, MAX_EVENTS - 1, MAX_EVENTS, MAX_EVENTS + 1}

\* A caller takes a snapshot, keeps it while events are appended, and may
\* change the array it was given
TakeSnapshot ==
    /\ Len(appended) \in SnapshotPoints
    /\ snapshot' = <<getRecentEventsArray(events)>>
    /\ snapshotExpected' =
          [elems |-> events, takenAt |-> Len(appended), modified |-> FALSE]
    /\ UNCHANGED <<analyzerVars, trackerVars, storageVars, scrollVars,
                 choice, pollVars,
                 tipPresentedAt, objects>>

\* The elements the caller reads from the array it holds
SnapshotElems ==
    IF snapshot[1].shared THEN events ELSE snapshot[1].elems

\* Array.prototype.pop on the array the caller holds
PopSnapshot ==
    /\ snapshot # <<>>
    /\ ~snapshotExpected.modified
    /\ Len(SnapshotElems) > 0
    /\ LET popped == SubSeq(SnapshotElems, 1, Len(SnapshotElems) - 1)
       IN  IF snapshot[1].shared
           THEN events' = popped /\ snapshot' = snapshot
           ELSE events' = events
                /\ snapshot' = <<[snapshot[1] EXCEPT !.elems = popped]>>
    /\ snapshotExpected' =
          [snapshotExpected EXCEPT
              !.elems = SubSeq(@, 1, Len(@) - 1), !.modified = TRUE]
    /\ UNCHANGED <<appended, detection>>
    /\ UNCHANGED <<analyzerVars, storageVars, scrollVars,
                 choice, pollVars,
                 tipPresentedAt, objects>>

NextSnapshot ==
    \/ \E d \in {0, 1} : OnFileSave(d)
    \/ TakeSnapshot
    \/ PopSnapshot

SpecSnapshot == Init /\ [][NextSnapshot]_vars

\* The analyzer given a long stream of text edits: a paste, a deletion and
\* one-character insertions on two lines.  The first FreeEdits edits are
\* any of them; after that the user types one character at a time,
\* changing line with every edit, so that every edit closes an aggregate.
EditedDocument == <<<<"c">>, <<"b">>>>

PasteEdit ==
    TextEvent([i \in 1..PasteLength |-> "c"], 0, 0, EditedDocument, "python")

DeleteEdit == TextEvent(<<>>, 1, 0, EditedDocument, "python")

TypingEdits ==
    {TextEvent(<<"c">>, 0, 0, EditedDocument, "python"),
     TextEvent(<<"b">>, 0, 1, EditedDocument, "python")}

OnTextEdit(event) ==
    /\ nEvents < MaxEdits
    /\ nEvents >= FreeEdits =>
          event \in TypingEdits /\ event.line # last.event.line
    /\ HandleInteraction(event, 1)
    /\ UNCHANGED <<tipPresentedAt, objects>>

NextAggregation ==
    \E event \in TypingEdits \cup {PasteEdit, DeleteEdit} : OnTextEdit(event)

SpecAggregation == Init /\ [][NextAggregation]_vars

\* How many times a call that took the analyzer from a to a2 ran the
\* aggregation of filterTextChange on its event
TimesAggregated(a, a2, event, t) ==
    LET once == aggregateTextChange(a, event, t)
        twice == aggregateTextChange(once, event, t)
        Same(x) == /\ x.recentEvents = a2.recentEvents
                   /\ x.currentEvent = a2.currentEvent
    IN  CHOOSE k \in 0..2 : \/ k = 0 /\ Same(a)
                            \/ k = 1 /\ Same(once)
                            \/ k = 2 /\ Same(twice)

\* An event handled, with the objects the aggregation works on: each run of
\* the aggregation the call made is made on the objects
HandleInPlace(event) ==
    /\ nEvents < MaxEdits
    /\ nEvents >= FreeEdits =>
          event \in TypingEdits /\ event.line # last.event.line
    /\ HandleInteraction(event, 1)
    /\ objects' =
          LET k == TimesAggregated(analyzer, analyzer', event, now + 1)
              once == aggregateInPlace(objects, event, now + 1)
          IN  CASE k = 0 -> objects
                [] k = 1 -> once
                [] k = 2 -> aggregateInPlace(once, event, now + 1)
    /\ UNCHANGED tipPresentedAt

ObjectEvents ==
    TypingEdits \cup {PasteEdit, DeleteEdit} \cup SelectionEvents
    \cup {PlainEvent("fileSave", TRUE)}

NextObjects == \E event \in ObjectEvents : HandleInPlace(event)

SpecObjects == Init /\ [][NextObjects]_vars

\* The analyzer given edits that comment and uncomment a Python line: '#'
\* typed at the start of line 0, the '#' of line 0 deleted, and a character
\* typed on line 1
CommentEvents ==
    TextEvents \cup {TextEvent(<<>>, 1, 0, <<<<"b">>, <<"b">>>>, "python")}

NextComment ==
    \E event \in CommentEvents, d \in Deltas : AnalyzeInteraction(event, d)

SpecComment == Init /\ [][NextComment]_vars

\* The analyzer given cursor movements on the line " abc" (first
\* non-whitespace index 1, length 4) and on a second line, a selection, a
\* typed character and a textChange notification that carries no changes
CursorEvents ==
    LET doc == <<<<" ", "a", "b", "c">>, <<"a", "b", "c", "d">>>>
        at(l, c) ==
            SelectionEvent(Position(l, c), Position(l, c), Position(l, c), doc)
    IN  {at(0, c) : c \in 0..4} \cup {at(1, 2)}
        \cup {SelectionEvent(Position(0, 2), Position(0, 3), Position(0, 3), doc)}
        \cup {TextEvent(<<"b">>, 0, 1, <<Hash, <<"b">>>>, "python"),
              [TextEvent(<<>>, 0, 0, <<Hash, <<"b">>>>, "python")
                  EXCEPT !.hasContext = FALSE]}

\* 499 ms after an event, or 1 ms after it
NextCursor ==
    \E event \in CursorEvents, d \in {1, 499} : AnalyzeInteraction(event, d)

SpecCursor == Init /\ [][NextCursor]_vars

\* Lines of up to MaxLineLength characters: an indentation of blanks followed
\* by letters, among them the empty line and the lines that are all blank
ColumnLines ==
    {[i \in 1..(k + m) |-> IF i <= k THEN " " ELSE "a"] :
        k \in 0..MaxLineLength, m \in 0..MaxLineLength} \cap
    UNION {[1..n -> {" ", "a"}] : n \in 0..MaxLineLength}

\* The cursor placed at every column of every such line
ColumnEvents ==
    UNION {{SelectionEvent(Position(0, c), Position(0, c), Position(0, c),
                           <<line>>) : c \in 0..Len(line)} :
           line \in ColumnLines}

\* One cursor movement, MaxMoves of them at most
OnCursorMove(event) ==
    /\ nEvents < MaxMoves
    /\ HandleInteraction(event, 1)
    /\ UNCHANGED <<tipPresentedAt, objects>>

NextColumns == \E event \in ColumnEvents : OnCursorMove(event)

SpecColumns == Init /\ [][NextColumns]_vars

\* The analyzer given selections on the line " abc " (first non-whitespace
\* index 1, last 4, length 5): the whole line, its non-whitespace
\* characters, a part of it, a cursor, a selection from it into the next
\* line, and a selection on the next line
SelectionChanges ==
    LET doc == <<<<" ", "a", "b", "c", " ">>, <<"a", "b", "c", "d">>>>
        sel(l1, c1, l2, c2) ==
            SelectionEvent(Position(l1, c1), Position(l2, c2), Position(l2, c2),
                           doc)
    IN  {sel(0, 0, 0, 5), sel(0, 1, 0, 4), sel(0, 2, 0, 3), sel(0, 2, 0, 2),
         sel(0, 2, 1, 1), sel(1, 1, 1, 2)}

NextSelection ==
    \E event \in SelectionChanges, d \in Deltas : AnalyzeInteraction(event, d)

SpecSelection == Init /\ [][NextSelection]_vars

\* The analyzer given the edits the multi-cursor, line-duplication and
\* deletion detectors look for, in a plain-text document of four lines:
\* "abcd" pasted on line 0 (with the same text two lines below), on line 1
\* (with the same text on line 0) and on line 3 (no such line within two
\* lines); one character deleted on line 0; five characters deleted on
\* line 0, which keeps text, and on line 2, which is left blank
DetectorEvents ==
    LET abcd == <<"a", "b", "c", "d">>
        x == <<"x">>
        blank == <<" ", " ">>
    IN  {TextEvent(abcd, 0, 0, <<abcd, x, abcd, x>>, "plaintext"),
         TextEvent(abcd, 0, 1, <<abcd, abcd, blank, x>>, "plaintext"),
         TextEvent(abcd, 0, 3, <<abcd, x, blank, abcd>>, "plaintext"),
         TextEvent(<<>>, 1, 0, <<abcd, x, blank, x>>, "plaintext"),
         TextEvent(<<>>, 5, 0, <<abcd, x, blank, x>>, "plaintext"),
         TextEvent(<<>>, 5, 2, <<abcd, x, blank, x>>, "plaintext")}

\* 1 ms, the cooldown, or just over the 10 minute debounce after an event
NextDetectors ==
    \E event \in DetectorEvents, d \in Deltas \cup {600001} :
        AnalyzeInteraction(event, d)

SpecDetectors == Init /\ [][NextDetectors]_vars

\* The gating events with the time of the last presented tip kept
AnalyzeInteractionTimed(event, d) ==
    /\ nEvents < MaxEvents
    /\ HandleInteraction(event, d)
    /\ tipPresentedAt' = IF event.type = "tipOfTheDay" /\ last'.emitted # <<>>
                         THEN now + d
                         ELSE tipPresentedAt
    /\ UNCHANGED objects

NextTips ==
    \/ \E event \in GatingEvents, d \in Deltas :
          AnalyzeInteractionTimed(event, d)
    \/ \E shortcut \in AllShortcuts, response \in Responses :
          Respond(shortcut, response)

SpecTips == Init /\ [][NextTips]_vars

\* The text-edit detectors under every configured session limit from 0 up
InitSession ==
    /\ \E limit \in 0..ConfiguredSessionLimit :
          analyzer = [NewAnalyzer EXCEPT !.sessionRecommendationLimit = limit]
    /\ now = StartTime
    /\ learned = {}
    /\ pending = [s \in AllShortcuts |-> 0]
    /\ nEvents = 0
    /\ last = NoCall
    /\ lastResponse = "none"
    /\ run = NoRun
    /\ presented = 0
    /\ InitTracker /\ InitStorage /\ InitScroll /\ InitSnapshot /\ InitPolling

SpecSession == InitSession /\ [][NextDetectors]_vars

\* ------------------------------------------------------------------------
\* The polling pipeline: Analyzer.analyze called from the setInterval loop
\* ------------------------------------------------------------------------
SaveFile == [id |-> "saveFile", message |-> "save file", shortcut |-> K_CtrlS]

\* Rule: Ctrl+S (Save)
detectSave(evs, lastEvent) ==
    IF lastEvent.type = "fileSave" THEN <<SaveFile>> ELSE <<>>

\* analyze: the field after the call, whether the detectors ran, and the
\* recommendation returned (<<>>: null). Of the rules in the chain, the
\* ones that can match a textChange deletion or a fileSave event are
\* evaluated; the others return null for these kinds of event.
analyze(lastAnalyzed, evs) ==
    IF Len(evs) = 0
    THEN [lastAnalyzedTimestamp |-> lastAnalyzed, ran |-> FALSE,
          result |-> <<>>]
    ELSE LET lastEvent == evs[Len(evs)]
         IN  IF lastEvent.timestamp <= lastAnalyzed
             THEN [lastAnalyzedTimestamp |-> lastAnalyzed, ran |-> FALSE,
                   result |-> <<>>]
             ELSE [lastAnalyzedTimestamp |-> lastEvent.timestamp,
                   ran |-> TRUE,
                   result |->
                       IF detectDeleteWordLeft(evs, lastEvent) # <<>>
                       THEN detectDeleteWordLeft(evs, lastEvent)
                       ELSE detectSave(evs, lastEvent)]

\* onFileSave between two polls: d ms after the previous event
OnSaveBetweenPolls(d) ==
    /\ Len(appended) < MaxPolledEvents
    /\ now + d <= StartTime + MaxPollClock
    /\ now' = now + d
    /\ LET e == BufferedEvent("fileSave", now + d, <<>>)
       IN  /\ events' = addEvent(events, e)
           /\ appended' = Append(appended, e)
    /\ UNCHANGED detection
    /\ UNCHANGED <<analyzer, learned, pending, nEvents, last, lastResponse, run,
                   presented>>
    /\ UNCHANGED <<storageVars, scrollVars, snapshotVars, choice, pollVars,
                   tipPresentedAt, objects>>

\* One run of the setInterval callback, d ms after the previous step: in
\* the same millisecond, or one interval later
Poll(d) ==
    LET r == analyze(lastAnalyzedTimestamp, getRecentEvents(events))
        show == r.result # <<>>
                /\ now + d - pollRecommendationTime > CONFIG_COOLDOWN_INTERVAL
    IN  /\ now + d <= StartTime + MaxPollClock
        /\ now' = now + d
        /\ lastAnalyzedTimestamp' = r.lastAnalyzedTimestamp
        /\ pollRecommendationTime' =
              IF show THEN now + d ELSE pollRecommendationTime
        /\ poll' = [prev |-> poll.call,
                    call |-> [called |-> TRUE, newest |-> Len(appended),
                              ran |-> r.ran, result |-> r.result,
                              shown |-> show,
                              analyzed |->
                                  poll.call.analyzed
                                  \cup (IF r.ran THEN {Len(appended)} ELSE {})]]
        /\ UNCHANGED <<analyzer, learned, pending, nEvents, last, lastResponse,
                       run, presented>>
        /\ UNCHANGED <<trackerVars, storageVars, scrollVars, snapshotVars,
                       choice,
                       tipPresentedAt, objects>>

NextPolling ==
    \/ \E d \in {0, 1} : OnSaveBetweenPolls(d)
    \/ \E d \in {0, POLL_INTERVAL} : Poll(d)

SpecPolling == Init /\ [][NextPolling]_vars

\* selectBestShortcut as a function of its arguments: the candidates are up
\* to MaxCandidates distinct shortcuts (the caller never passes an empty
\* list), among them every label a branch looks for, one label no branch
\* looks for, and a second shortcut labelled F10
CandidatePool ==
    {Shortcut(label, <<"a">>) :
        label \in {K_F5, K_ShiftF5, K_F9, K_F10, K_CtrlBacktick, K_CtrlUpDown,
                   K_AltTab, K_CtrlS}}
    \cup {Shortcut(K_F10, <<"b">>)}

CandidateLists ==
    {c \in UNION {[1..n -> CandidatePool] : n \in 1..MaxCandidates} :
        \A i, j \in 1..Len(c) : i # j => c[i] # c[j]}

SelectedKinds ==
    {"textChange", "selectionChange", "tipOfTheDay", "activeEditorChange",
     "windowStateChange", "activeTerminalChange", "debugStart", "fileSave"}

SelectBestShortcut(shortcuts, type) ==
    /\ \E selected \in selectBestShortcut(shortcuts, PlainEvent(type, TRUE)) :
          choice' = [shortcuts |-> shortcuts, type |-> type,
                     selected |-> <<selected>>]
    /\ UNCHANGED <<analyzerVars, trackerVars, storageVars, scrollVars,
                   snapshotVars, pollVars,
                 tipPresentedAt, objects>>

\* One call in a behaviour
NextSelect ==
    /\ choice = NoChoice
    /\ \E shortcuts \in CandidateLists, type \in SelectedKinds :
          SelectBestShortcut(shortcuts, type)

SpecSelect == Init /\ [][NextSelect]_vars

\* ------------------------------------------------------------------------
\* Properties
\* ------------------------------------------------------------------------
Called == last.event.type # "none"

LastNonTip == Called /\ last.event.type # "tipOfTheDay"

Emitted == last.emitted # <<>>

\* Time between the last call and the recommendation before it
Elapsed == last.time - last.pre.lastRecommendationTime

\* The last event had a candidate left after the context, learned and session
\* filters, the cooldown gate aside
WouldQualify ==
    LET filtered == filterByContext(last.pre, getShortcutsByType(last.event.type),
                                    last.event, last.time)
    IN  Len(sessionCandidates(filtered.a,
                unlearnedShortcuts(last.preLearned, filtered.out))) > 0

\* C1. Cooldown gating: a non-tip event handled less than cooldownInterval
\* after the previous recommendation emits nothing; one handled at least
\* cooldownInterval after it is not held back by the gate, so it emits
\* whenever it has a candidate left after the other filters.
CooldownGating ==
    LastNonTip =>
        /\ Elapsed < last.pre.cooldownInterval => ~Emitted
        /\ Elapsed >= last.pre.cooldownInterval /\ WouldQualify => Emitted

\* A qualifying non-tip event was handled inside the cooldown of an earlier
\* recommendation and emitted nothing
CooldownGatingWitness ==
    /\ LastNonTip
    /\ last.pre.lastRecommendationTime > 0
    /\ Elapsed < last.pre.cooldownInterval
    /\ WouldQualify
    /\ ~Emitted

\* C2. Session cap: a recommendation emitted when sessionRecommendationLimit
\* distinct shortcuts (label:action keys) had already been shown is one of
\* the shortcuts already shown.
SessionCap ==
    /\ Emitted
    /\ Cardinality(last.pre.shownShortcuts) >= last.pre.sessionRecommendationLimit
    => getShortcutKey(last.emitted[1]) \in last.pre.shownShortcuts

\* With the cap reached, the detectors offered a shortcut not yet shown and
\* the call emitted one that had been shown before
SessionCapWitness ==
    /\ Emitted
    /\ Cardinality(last.pre.shownShortcuts) >= last.pre.sessionRecommendationLimit
    /\ \E i \in 1..Len(last.detected) :
          getShortcutKey(last.detected[i]) \notin last.pre.shownShortcuts
    /\ getShortcutKey(last.emitted[1]) \in last.pre.shownShortcuts

\* C3. Learned suppression: no call emits a shortcut that was marked learned
\* before the call, whatever the event kind.
LearnedSuppression ==
    Emitted =>
        ~isLearned(last.preLearned, last.emitted[1].shortcut,
                   last.emitted[1].action)

\* A tip of the day whose first tip had been learned: the detector offered
\* the learned shortcut and the call emitted another one
LearnedSuppressionWitness ==
    /\ last.event.type = "tipOfTheDay"
    /\ Emitted
    /\ \E i \in 1..Len(last.detected) :
          isLearned(last.preLearned, last.detected[i].shortcut,
                    last.detected[i].action)

\* C4. Buffer bound: the snapshot is the last min(N, 50) appended events in
\* append order, so it never holds more than 50 and holds 50 once N > 50.
BufferBound ==
    LET n == Len(appended)
        k == Min(n, MAX_EVENTS)
    IN  /\ getRecentEvents(events) = SubSeq(appended, n - k + 1, n)
        /\ Len(getRecentEvents(events)) <= MAX_EVENTS
        /\ n > MAX_EVENTS => Len(getRecentEvents(events)) = MAX_EVENTS

\* Two events past the capacity, the oldest ones (with the older timestamp)
\* are gone from the snapshot
BufferBoundWitness ==
    /\ Len(appended) = MAX_EVENTS + 2
    /\ Len(events) = MAX_EVENTS
    /\ appended[1].timestamp # events[1].timestamp

\* C5. Aggregation correctness: after a run of insertions on one line the
\* open aggregate is an 'add' on that line whose count is the number of
\* characters inserted in the run (k for k one-character insertions); an
\* insertion on another line closes the open aggregate, once, and opens a
\* new one.
AggregationCorrectness ==
    /\ run.n > 0 =>
          /\ analyzer.currentEvent # <<>>
          /\ analyzer.currentEvent[1].eventType = "add"
          /\ analyzer.currentEvent[1].line = run.line
          /\ analyzer.currentEvent[1].count = run.chars
    /\ /\ last.event.type = "textChange"
       /\ last.pre.currentEvent # <<>>
       /\ last.pre.currentEvent[1].line # last.event.line
       => /\ analyzer.recentEvents =
                pushToQueue(last.pre.recentEvents, last.pre.currentEvent[1])
          /\ analyzer.currentEvent[1].line = last.event.line

CommentYielded ==
    \E i \in 1..Len(last.detected) : last.detected[i].shortcut = K_CtrlSlash

\* The last event is a text edit that satisfies the comment condition and
\* was run through the detectors (not handled while cooling)
CommentQualifying ==
    /\ last.event.type = "textChange"
    /\ last.event.hasContext
    /\ last.event.editor
    /\ commentCharOf(last.event.lang) # <<>>
    /\ isCommentAction(aggregateTextChange(last.pre, last.event,
                                            last.time).currentEvent[1],
                       Trim(LineAt(last.event.doc, last.event.line)),
                       commentCharOf(last.event.lang))
    /\ ~isCooling(last.pre, last.event, last.time)

\* C6. Toggle-comment debounce: a qualifying edit yields the 'Ctrl+/'
\* candidate when the detector has not yielded it before, and yields no
\* comment-toggle candidate within 10 minutes of the last time it did.
CommentToggleOnce ==
    CommentQualifying =>
        /\ last.preCommentYield = 0 => CommentYielded
        /\ /\ last.preCommentYield > 0
           /\ last.time - last.preCommentYield <= COMMENT_DEBOUNCE
           => ~CommentYielded

\* The events before the run of one-character deletions the buffer ends with
RECURSIVE BeforeDeletions(_)
BeforeDeletions(evs) ==
    IF evs # <<>> /\ evs[Len(evs)].type = "textChange"
       /\ isSingleCharDeletion(evs[Len(evs)])
    THEN BeforeDeletions(SubSeq(evs, 1, Len(evs) - 1))
    ELSE evs

\* The buffer is some events without any one-character deletion, followed
\* by k consecutive one-character deletions and nothing else
DeletionScenario(k) ==
    LET before == BeforeDeletions(events)
    IN  /\ Len(events) - Len(before) = k
        /\ \A i \in 1..Len(before) :
              ~(before[i].type = "textChange" /\ isSingleCharDeletion(before[i]))

\* C7. Delete-word-left: with consecutive one-character deletions and no
\* other events interleaved, the detector returns no match after the first
\* and the second deletion and the 'Ctrl+Backspace' match after the third.
DeleteWordLeftOnThird ==
    /\ DeletionScenario(1) \/ DeletionScenario(2) => detection = <<>>
    /\ DeletionScenario(3) =>
          /\ detection # <<>>
          /\ detection[1].shortcut = K_CtrlBackspace

\* A third consecutive deletion after other events, and the match
DeleteWordLeftOnThirdWitness ==
    /\ DeletionScenario(3)
    /\ Len(events) > 3
    /\ detection = <<DeleteWordLeft>>

\* C8. While cooling, a call emits nothing and only the aggregation state and
\* the cursor/selection tracking state follow the event; the last
\* recommendation time, the shown-this-session set and the detectors'
\* last-fired timestamps stay as they were.
CoolingUpdatesStateOnly ==
    LastNonTip /\ Elapsed < last.pre.cooldownInterval =>
        /\ ~Emitted
        /\ analyzer.lastRecommendationTime = last.pre.lastRecommendationTime
        /\ analyzer.shownShortcuts = last.pre.shownShortcuts
        /\ analyzer.lastCtrlBackSpaceRecTime = last.pre.lastCtrlBackSpaceRecTime
        /\ analyzer.lastCommentRecommendationTime =
              last.pre.lastCommentRecommendationTime
        /\ last.event.type = "textChange" /\ last.event.hasContext =>
              /\ analyzer.lastTextChangeTime = last.time
              /\ analyzer.currentEvent # <<>>
              /\ analyzer.currentEvent[1].line = last.event.line
        /\ last.event.type = "selectionChange" /\ last.event.hasContext =>
              analyzer.previousSelection =
                  <<[isEmpty |-> last.event.selStart = last.event.selEnd,
                     start |-> last.event.selStart,
                     end |-> last.event.selEnd]>>

\* C9. Commit before presentation: while a presentation is pending its
\* shortcut is already in the shown-this-session set and the last
\* recommendation time is set; both stay as committed after the presentation
\* failed or was dismissed, and a non-tip event handled within the cooldown
\* after such a presentation emits nothing.
CommitBeforePresentation ==
    /\ \A s \in AllShortcuts :
          pending[s] > 0 =>
              /\ getShortcutKey(s) \in analyzer.shownShortcuts
              /\ analyzer.lastRecommendationTime > 0
    /\ Emitted =>
          /\ analyzer.lastRecommendationTime = last.time
          /\ getShortcutKey(last.emitted[1]) \in analyzer.shownShortcuts
    /\ /\ LastNonTip
       /\ last.preResponse \in {"undefined", "rejected"}
       /\ Elapsed < last.pre.cooldownInterval
       => ~Emitted

\* The only presentation so far failed, and a qualifying non-tip event
\* handled within the cooldown after it emitted nothing
CommitBeforePresentationWitness ==
    /\ LastNonTip
    /\ last.preResponse = "rejected"
    /\ last.prePending = 0
    /\ last.pre.lastRecommendationTime > 0
    /\ Elapsed < last.pre.cooldownInterval
    /\ WouldQualify
    /\ ~Emitted

\* The shortcuts whose pending presentation is settled by this step
Settled == {s \in AllShortcuts : pending'[s] < pending[s]}

\* C10. Reentrancy: an event handled while a presentation is pending is
\* processed to completion with the gating and the state updates of
\* analyzeInteraction, and the arrival of a response changes no analyzer
\* state and adds at most the answered shortcut to the learned set.
ReentrantWhilePending ==
    /\ [](Called /\ last.prePending > 0 =>
            \E o \in analyzeInteraction(last.pre, last.preLearned,
                                        last.event, last.time) :
                o.a = analyzer /\ o.emitted = last.emitted)
    /\ [][Settled # {} =>
            /\ analyzer' = analyzer
            /\ learned \subseteq learned'
            /\ learned' \ learned \subseteq
                  {LearnedId(s.shortcut, s.action) : s \in Settled}]_vars

\* An event was handled while a presentation was pending, and a response
\* arrived after it
ReentrantWhilePendingWitness ==
    /\ Called
    /\ last.prePending > 0
    /\ last.preResponse = "none"
    /\ lastResponse = GotIt

\* The gating step at which the last call, not held back by the cooldown,
\* was left without candidates ("none" when it was not)
GatingStop ==
    LET matching == getShortcutsByType(last.event.type)
        filtered == filterByContext(last.pre, matching, last.event, last.time)
        unlearned == unlearnedShortcuts(last.preLearned, filtered.out)
        candidates == sessionCandidates(filtered.a, unlearned)
    IN  CASE ~Called \/ isCooling(last.pre, last.event, last.time) -> "none"
          [] Len(matching) = 0 -> "catalog"
          [] Len(filtered.out) = 0 -> "context"
          [] Len(unlearned) = 0 -> "learned"
          [] Len(candidates) = 0 -> "cap"
          [] OTHER -> "none"

\* C11. Silent no-op: a call that a gating step leaves without candidates
\* (nothing catalogued, empty context filter result, all candidates learned,
\* no already-shown candidate with the cap reached) presents nothing and
\* leaves lastRecommendationTime and the shown-this-session set unchanged.
SilentNoOp ==
    GatingStop # "none" =>
        /\ ~Emitted
        /\ analyzer.lastRecommendationTime = last.pre.lastRecommendationTime
        /\ analyzer.shownShortcuts = last.pre.shownShortcuts

\* With the cap reached after two recommendations, a save that has only
\* never-shown candidates is passed over in silence
SilentNoOpWitness ==
    /\ GatingStop = "cap"
    /\ presented >= 2
    /\ last.event.type = "fileSave"
    /\ ~Emitted

\* The final candidate list of the last call, from the state it started in
FinalCandidates ==
    LET filtered == filterByContext(last.pre, getShortcutsByType(last.event.type),
                                    last.event, last.time)
    IN  sessionCandidates(filtered.a,
                          unlearnedShortcuts(last.preLearned, filtered.out))

\* C12. Single winner: a call presents at most one recommendation, and the
\* presented shortcut is catalogued under the event's kind, passed the
\* kind's context filter, was not learned when selected, and had been shown
\* before if the cap was reached: it is one of the final candidates.
SingleWinner ==
    /\ [](/\ Len(last.emitted) <= 1
          /\ Emitted =>
              LET s == last.emitted[1]
                  matching == getShortcutsByType(last.event.type)
                  filtered == filterByContext(last.pre, matching, last.event,
                                              last.time)
              IN  /\ s \in Range(matching)
                  /\ s \in Range(filtered.out)
                  /\ ~isLearned(last.preLearned, s.shortcut, s.action)
                  /\ Cardinality(last.pre.shownShortcuts)
                        >= last.pre.sessionRecommendationLimit
                     => getShortcutKey(s) \in last.pre.shownShortcuts
                  /\ s \in Range(FinalCandidates))
    /\ [][presented' <= presented + 1]_vars

\* A call with two final candidates presented one of them, and not the one
\* catalogued first
SingleWinnerWitness ==
    /\ Emitted
    /\ Len(FinalCandidates) >= 2
    /\ last.emitted[1] # getShortcutsByType(last.event.type)[1]
    /\ presented >= 1

\* The tips of the catalog that were not learned when the last call began
UnlearnedTips == unlearnedShortcuts(last.preLearned, getShortcutsByType("tipOfTheDay"))

\* C13. Tip of the day: a tipOfTheDay event is not held back by the
\* cooldown, and whenever a tip of the catalog is not learned it presents
\* the first not-yet-learned tip in catalog order.
TipOfTheDayProgressive ==
    last.event.type = "tipOfTheDay" /\ Len(UnlearnedTips) > 0 =>
        /\ Emitted
        /\ last.emitted[1] = UnlearnedTips[1]

RECURSIVE FirstOccurrences(_)
FirstOccurrences(ids) ==
    IF ids = <<>>
    THEN <<>>
    ELSE LET before == FirstOccurrences(SubSeq(ids, 1, Len(ids) - 1))
             id == ids[Len(ids)]
         IN  IF \E i \in 1..Len(before) : before[i] = id
             THEN before
             ELSE Append(before, id)

\* C15. markAsLearned is idempotent: the stored list holds every marked id
\* once, in the order of first marking (so a second marking adds no
\* duplicate and marking never removes or reorders entries), marking the id
\* just marked again leaves the list identical, and isLearned is true for
\* every id from the moment it has been marked.
MarkAsLearnedIdempotent ==
    /\ store = FirstOccurrences(marked)
    /\ marked # <<>> =>
          StorageMarkAsLearned(store, marked[Len(marked)]) = store
    /\ \A i \in 1..Len(marked) : StorageIsLearned(store, marked[i])

\* An id was marked a second time after another id had been marked, and
\* the list holds the two ids once each
MarkAsLearnedIdempotentWitness ==
    /\ Len(marked) >= 3
    /\ marked[1] = marked[Len(marked)]
    /\ marked[2] # marked[1]
    /\ Len(store) = 2

\* The sum of the first n recorded deltas that are not older than
\* SCROLL_WINDOW at instant t
WindowSum(n, t) ==
    SumAmounts(KeepSince(SubSeq(scrolls.records, 1, n), t - SCROLL_WINDOW))

\* C16. Scroll throttling: every emitted scrollChange had more than 50 lines
\* of recorded deltas in the 2 seconds up to it, came at least 10 minutes
\* after the scrollChange emitted before it, and left the rolling window
\* empty; any two emitted scrollChange events are at least 10 minutes apart.
ScrollThrottling ==
    LET emits == scrolls.emits
    IN  /\ \A i \in 1..Len(emits) :
              WindowSum(emits[i].upTo, emits[i].time) > SCROLL_LINES_THRESHOLD
        /\ \A i, j \in 1..Len(emits) :
              i < j => emits[j].time - emits[i].time >= SCROLL_EVENT_INTERVAL
        /\ scrolls.lastEmitted =>
              /\ scroller.recentScrolls = <<>>
              /\ scroller.lastScrollEventTime = now

\* Two scrollChange events were emitted
ScrollThrottlingWitness ==
    /\ Len(scrolls.emits) = 2
    /\ scrolls.lastEmitted

\* C17. Snapshot isolation: the array returned by getRecentEvents holds what
\* the buffer held when it was taken, changed only by what its holder did
\* to it, whatever was appended or evicted since; and the buffer holds the
\* last min(N, 50) appended events whatever the holder did to the snapshot.
SnapshotIsolation ==
    /\ snapshot # <<>> => SnapshotElems = snapshotExpected.elems
    /\ LET n == Len(appended)
           k == Min(n, MAX_EVENTS)
       IN  events = SubSeq(appended, n - k + 1, n)

\* A snapshot taken of a full buffer, then changed by its holder, with
\* events appended (and so evicted) since it was taken
SnapshotIsolationWitness ==
    /\ snapshot # <<>>
    /\ snapshotExpected.takenAt >= MAX_EVENTS
    /\ Len(appended) > snapshotExpected.takenAt
    /\ snapshotExpected.modified
    /\ SnapshotElems # events

\* The last call was given a text edit with its changes
TextEdited == last.event.type = "textChange" /\ last.event.hasContext

EditDirection == IF Len(last.event.text) > 0 THEN "add" ELSE "delete"

EditAmount ==
    IF Len(last.event.text) > 0 THEN Len(last.event.text)
    ELSE last.event.rangeLength

\* An aggregate was open before the last call, on the edit's line and in
\* the edit's direction
SameRun ==
    /\ last.pre.currentEvent # <<>>
    /\ last.pre.currentEvent[1].line = last.event.line
    /\ last.pre.currentEvent[1].eventType = EditDirection

\* C18. Extend-or-close rule: a text edit extends the open aggregate exactly
\* when one is open on the same line in the same direction (the history is
\* left alone, the aggregate keeps its text and grows); otherwise the open
\* aggregate, if any, is appended to the history exactly once and a new
\* aggregate is opened for the edit; there is never more than one open.
ExtendOrClose ==
    /\ Len(analyzer.currentEvent) <= 1
    /\ TextEdited =>
          /\ Len(analyzer.currentEvent) = 1
          /\ analyzer.currentEvent[1].line = last.event.line
          /\ analyzer.currentEvent[1].eventType = EditDirection
          /\ analyzer.currentEvent[1].timestamp = last.time
    /\ TextEdited /\ SameRun =>
          /\ analyzer.recentEvents = last.pre.recentEvents
          /\ analyzer.currentEvent[1].count > last.pre.currentEvent[1].count
          /\ SubSeq(analyzer.currentEvent[1].text, 1,
                    Len(last.pre.currentEvent[1].text))
                = last.pre.currentEvent[1].text
    /\ TextEdited /\ ~SameRun /\ last.pre.currentEvent # <<>> =>
          /\ Len(analyzer.recentEvents) =
                Min(Len(last.pre.recentEvents) + 1, MAX_QUEUE_SIZE)
          /\ analyzer.recentEvents[Len(analyzer.recentEvents)] =
                last.pre.currentEvent[1]
          /\ Len(analyzer.recentEvents) >= 2 =>
                analyzer.recentEvents[Len(analyzer.recentEvents) - 1] =
                    last.pre.recentEvents[Len(last.pre.recentEvents)]
    /\ TextEdited /\ last.pre.currentEvent = <<>> =>
          analyzer.recentEvents = last.pre.recentEvents

\* A deletion on the line of an open 'add' aggregate closed it and opened a
\* 'delete' aggregate
ExtendOrCloseWitness ==
    /\ TextEdited
    /\ EditDirection = "delete"
    /\ last.pre.currentEvent # <<>>
    /\ last.pre.currentEvent[1].line = last.event.line
    /\ last.pre.currentEvent[1].eventType = "add"
    /\ analyzer.recentEvents # <<>>
    /\ analyzer.recentEvents[Len(analyzer.recentEvents)].eventType = "add"
    /\ analyzer.currentEvent[1].eventType = "delete"

\* The last call closed the aggregate that was open
ClosedOne == TextEdited /\ ~SameRun /\ last.pre.currentEvent # <<>>

\* C19. The aggregate history never holds more than 50 closed aggregates;
\* pushing onto a full history removes the oldest, and the history keeps
\* the aggregates in the order in which they were closed.
HistoryBounded ==
    /\ Len(analyzer.recentEvents) <= MAX_QUEUE_SIZE
    /\ \A i, j \in 1..Len(analyzer.recentEvents) :
          i < j => analyzer.recentEvents[i].timestamp
                     < analyzer.recentEvents[j].timestamp
    /\ ClosedOne /\ Len(last.pre.recentEvents) < MAX_QUEUE_SIZE =>
          analyzer.recentEvents =
              Append(last.pre.recentEvents, last.pre.currentEvent[1])
    /\ ClosedOne /\ Len(last.pre.recentEvents) = MAX_QUEUE_SIZE =>
          analyzer.recentEvents =
              Append(Tail(last.pre.recentEvents), last.pre.currentEvent[1])

\* An aggregate was closed with 50 in the history: the oldest is gone
HistoryBoundedWitness ==
    /\ ClosedOne
    /\ Len(last.pre.recentEvents) = MAX_QUEUE_SIZE
    /\ Len(analyzer.recentEvents) = MAX_QUEUE_SIZE
    /\ analyzer.recentEvents[1] = last.pre.recentEvents[2]

\* C20. Sample cap with accurate count: the text of every aggregate, open or
\* closed, is at most 100 characters long, and every edit adds its full
\* inserted (or removed) length to the count of the aggregate it extends, or
\* is the count of the aggregate it opens.
SampleCapAccurateCount ==
    /\ \A i \in 1..Len(analyzer.recentEvents) :
          Len(analyzer.recentEvents[i].text) <= MAX_EVENT_TEXT_LENGTH
    /\ analyzer.currentEvent # <<>> =>
          Len(analyzer.currentEvent[1].text) <= MAX_EVENT_TEXT_LENGTH
    /\ TextEdited /\ SameRun =>
          analyzer.currentEvent[1].count =
              last.pre.currentEvent[1].count + EditAmount
    /\ TextEdited /\ ~SameRun => analyzer.currentEvent[1].count = EditAmount

\* The comment-toggle candidate was last yielded at instant t (t > 0) less
\* than the debounce before the last call
WithinCommentDebounce(t) == t > 0 /\ last.time - t <= COMMENT_DEBOUNCE

OtherDirection == IF EditDirection = "add" THEN "delete" ELSE "add"

\* C21. The comment-toggle debounce is per direction: a qualifying edit
\* yields 'Ctrl+/' when the detector yielded it within the last 10 minutes
\* only for an edit of the other direction, and does not yield it when the
\* detector yielded it within the last 10 minutes for an edit of the same
\* direction.
CommentDebouncePerDirection ==
    CommentQualifying =>
        /\ /\ ~WithinCommentDebounce(last.preCommentYieldBy[EditDirection])
           /\ WithinCommentDebounce(last.preCommentYieldBy[OtherDirection])
           => CommentYielded
        /\ WithinCommentDebounce(last.preCommentYieldBy[EditDirection])
           => ~CommentYielded

\* The number of one-character deletions the buffer ends with, up to index
\* i: any other event, of any kind, ends the run
RECURSIVE ConsecutiveDeletions(_, _)
ConsecutiveDeletions(evs, i) ==
    IF i = 0
    THEN 0
    ELSE IF evs[i].type = "textChange" /\ isSingleCharDeletion(evs[i])
         THEN 1 + ConsecutiveDeletions(evs, i - 1)
         ELSE 0

\* C22. Delete-word-left run counting: the detector matches a newest
\* deletion exactly when the buffer ends with at least 3 one-character
\* deletions in a row; an event of any other kind (a selection change, a
\* save, another text edit) ends the run, and deletions older than it are
\* not counted.
DeleteWordLeftRun ==
    events # <<>> =>
        LET newest == events[Len(events)]
        IN  detection =
                IF /\ newest.type = "textChange"
                   /\ Len(newest.contentChanges) = 1
                   /\ newest.contentChanges[1].text = <<>>
                   /\ ConsecutiveDeletions(events, Len(events))
                          >= DELETE_WORD_THRESHOLD
                THEN <<DeleteWordLeft>>
                ELSE <<>>

ToStartYielded ==
    \E i \in 1..Len(last.detected) : last.detected[i].shortcut = K_FnLeft

ToEndYielded ==
    \E i \in 1..Len(last.detected) : last.detected[i].shortcut = K_FnRight

SelectionChanged == last.event.type = "selectionChange" /\ last.event.hasContext

\* C23, as claimed. Typing guard: a selectionChange event handled less than
\* 500 ms after the most recent textChange event never yields a
\* cursor-to-line-start or cursor-to-line-end match.
TypingGuard ==
    /\ SelectionChanged
    /\ last.preSeen.textChangeAt > 0
    /\ last.time - last.preSeen.textChangeAt < TYPING_BUFFER
    => ~ToStartYielded /\ ~ToEndYielded

\* C23, amended. Typing guard: a selectionChange event handled less than
\* 500 ms after the most recent textChange event that carried at least one
\* change (handled while cooling or not) never yields a
\* cursor-to-line-start or cursor-to-line-end match.
TypingGuardAfterEdit ==
    /\ analyzer.lastTextChangeTime = last.seen.editAt
    /\ /\ SelectionChanged
       /\ last.preSeen.editAt > 0
       /\ last.time - last.preSeen.editAt < TYPING_BUFFER
       => ~ToStartYielded /\ ~ToEndYielded

\* The cursor went from the middle of the line to its start 499 ms after a
\* character was typed, outside any cooldown, and nothing was yielded
TypingGuardAfterEditWitness ==
    /\ SelectionChanged
    /\ ~isCooling(last.pre, last.event, last.time)
    /\ last.time - last.preSeen.editAt = TYPING_BUFFER - 1
    /\ last.preSeen.selection = <<[start |-> Position(0, 2), end |-> Position(0, 2)]>>
    /\ last.event.active = Position(0, 0)
    /\ last.event.selStart = last.event.selEnd
    /\ last.detected = <<>>

\* The selection of the selectionChange event before the last call was
\* empty and on the line the cursor is on now
PrevCursorOnLine ==
    /\ last.preSeen.selection # <<>>
    /\ last.preSeen.selection[1].start = last.preSeen.selection[1].end
    /\ last.preSeen.selection[1].start.line = last.event.active.line

PrevColumn == last.preSeen.selection[1].start.character

CursorLine == LineAt(last.event.doc, last.event.active.line)

\* C24, as claimed. Neither the to-start nor the to-end match is produced
\* when the previous cursor column was 0, the line's first-non-whitespace
\* index or the line length; both need the previous position to be an
\* empty selection on the same line.
StrictlyInteriorPrevious ==
    ToStartYielded \/ ToEndYielded =>
        /\ PrevCursorOnLine
        /\ PrevColumn \notin {0, FirstNonWhitespaceCharacterIndex(CursorLine),
                              Len(CursorLine)}

\* C24, amended. The to-start match is not produced when the previous
\* cursor column was 0, the line's first-non-whitespace index or the line
\* length; the to-end match is not produced when it was 0 or the line
\* length; both need the previous position to be an empty selection on the
\* same line.
InteriorPrevious ==
    /\ ToStartYielded =>
          /\ PrevCursorOnLine
          /\ PrevColumn \notin {0, FirstNonWhitespaceCharacterIndex(CursorLine),
                                Len(CursorLine)}
    /\ ToEndYielded =>
          /\ PrevCursorOnLine
          /\ PrevColumn \notin {0, Len(CursorLine)}

\* The cursor went from the first non-whitespace character of " abc"
\* (column 1) to the end of the line and the to-end match was produced
InteriorPreviousWitness ==
    /\ ToEndYielded
    /\ PrevCursorOnLine
    /\ PrevColumn = FirstNonWhitespaceCharacterIndex(CursorLine)
    /\ PrevColumn = 1

ExpandYielded ==
    \E i \in 1..Len(last.detected) :
        Includes(last.detected[i].shortcut, K_ShiftAltRight)

\* C25. Expand selection is matched only when the current selection covers
\* the full line (all characters, or all non-whitespace characters) on one
\* line, and the selection of the selectionChange event before it was
\* non-empty, lay on that same line from start to end, and left out a part
\* of the line's non-whitespace span.
ExpandSelectionAfterPartial ==
    ExpandYielded =>
        LET cur == last.event
            lineText == LineAt(cur.doc, cur.active.line)
            first == FirstNonWhitespaceCharacterIndex(lineText)
            lastNonWs == Len(TrimEnd(lineText))
        IN  /\ cur.selStart.line = cur.selEnd.line
            /\ \/ cur.selStart.character = 0 /\ cur.selEnd.character = Len(lineText)
               \/ /\ cur.selStart.character <= first
                  /\ cur.selEnd.character >= lastNonWs
                  /\ cur.selStart.character # cur.selEnd.character
            /\ last.preSeen.selection # <<>>
            /\ LET prev == last.preSeen.selection[1]
               IN  /\ prev.start # prev.end
                   /\ prev.start.line = cur.selStart.line
                   /\ prev.end.line = cur.selStart.line
                   /\ \/ prev.start.character > first
                      \/ prev.end.character < lastNonWs

\* The last call ran the text detectors: a text edit with its changes and
\* an active editor, not handled while cooling
DetectorsRan ==
    /\ TextEdited
    /\ last.event.editor
    /\ ~isCooling(last.pre, last.event, last.time)

\* The analyzer of the last call once the edit was folded in
Folded == aggregateTextChange(last.pre, last.event, last.time)

\* The closed add-aggregates on another line whose trimmed text is the open
\* aggregate's
MultiCursorMatches ==
    {i \in 1..Len(Folded.recentEvents) :
        /\ Folded.recentEvents[i].eventType = "add"
        /\ Folded.recentEvents[i].line # Folded.currentEvent[1].line
        /\ Trim(Folded.recentEvents[i].text) = Trim(Folded.currentEvent[1].text)}

MultiCursorCase ==
    /\ Folded.currentEvent[1].eventType = "add"
    /\ Len(Trim(Folded.currentEvent[1].text)) > MIN_MULTI_CURSOR_LENGTH
    /\ MultiCursorMatches # {}

AddCursorYielded ==
    \E i \in 1..Len(last.detected) :
        Includes(last.detected[i].shortcut, K_CtrlAltPrefix)

SelectOccurrenceYielded ==
    \E i \in 1..Len(last.detected) :
        \/ Includes(last.detected[i].shortcut, K_AltClick)
        \/ Includes(last.detected[i].shortcut, K_CtrlD)
        \/ Includes(last.detected[i].shortcut, K_CtrlF2)

\* C26. Multi-cursor family choice: when the open add-aggregate's trimmed
\* text (longer than 3) is the trimmed text of a closed add-aggregate on
\* another line, the detector yields the 'Ctrl+Alt+' family if such an
\* aggregate is exactly one line away and the select-occurrence family
\* otherwise; it never yields both, and yields neither when the only
\* aggregates with that text are on the same line.
MultiCursorFamily ==
    DetectorsRan =>
        IF MultiCursorCase
        THEN IF \E i \in MultiCursorMatches :
                    Abs(Folded.recentEvents[i].line
                        - Folded.currentEvent[1].line) = 1
             THEN AddCursorYielded /\ ~SelectOccurrenceYielded
             ELSE SelectOccurrenceYielded /\ ~AddCursorYielded
        ELSE ~AddCursorYielded /\ ~SelectOccurrenceYielded

\* "abcd" pasted on line 3 with the same paste closed on line 0: the
\* select-occurrence family
MultiCursorFamilyWitness ==
    /\ DetectorsRan
    /\ MultiCursorCase
    /\ Folded.currentEvent[1].line = 3
    /\ SelectOccurrenceYielded
    /\ ~AddCursorYielded

MultiCursorShortcut(s) ==
    \/ Includes(s.shortcut, K_CtrlAltPrefix)
    \/ Includes(s.shortcut, K_AltClick)
    \/ Includes(s.shortcut, K_CtrlD)
    \/ Includes(s.shortcut, K_CtrlF2)

DuplicateLineShortcut(s) ==
    Includes(s.shortcut, K_ShiftAltPrefix) \/ Includes(s.shortcut, K_CtrlC)

\* The multi-cursor detector and the line-duplication detector both matched
\* the last edit
BothDetectorsMatched ==
    /\ DetectorsRan
    /\ \E i \in 1..Len(last.detected) : MultiCursorShortcut(last.detected[i])
    /\ \E i \in 1..Len(last.detected) : DuplicateLineShortcut(last.detected[i])

\* A multi-cursor shortcut the detector yielded was not learned and could
\* be shown under the session cap
MultiCursorCandidateLeft ==
    \E i \in 1..Len(last.detected) :
        /\ MultiCursorShortcut(last.detected[i])
        /\ ~isLearned(last.preLearned, last.detected[i].shortcut,
                      last.detected[i].action)
        /\ \/ Cardinality(last.pre.shownShortcuts)
                 < last.pre.sessionRecommendationLimit
           \/ getShortcutKey(last.detected[i]) \in last.pre.shownShortcuts

\* C27. Deterministic precedence: when the multi-cursor detector and the
\* line-duplication detector both match an edit and a multi-cursor
\* candidate is unlearned and eligible under the session cap, the
\* recommendation presented for the edit is a multi-cursor shortcut, not a
\* line-duplication shortcut.
MultiCursorPrecedence ==
    BothDetectorsMatched /\ MultiCursorCandidateLeft =>
        /\ Emitted
        /\ MultiCursorShortcut(last.emitted[1])
        /\ ~DuplicateLineShortcut(last.emitted[1])

\* "abcd" pasted on line 1 after the same paste on line 0: both detectors
\* matched and the add-cursor shortcut was presented
MultiCursorPrecedenceWitness ==
    /\ BothDetectorsMatched
    /\ MultiCursorCandidateLeft
    /\ Emitted
    /\ Includes(last.emitted[1].shortcut, K_CtrlAltPrefix)

LineDeleteYielded ==
    \E i \in 1..Len(last.detected) :
        \/ Includes(last.detected[i].shortcut, K_CtrlShiftK)
        \/ Includes(last.detected[i].shortcut, K_CtrlX)

WordDeleteYielded ==
    \E i \in 1..Len(last.detected) :
        Includes(last.detected[i].shortcut, K_CtrlBackspace)

\* The open aggregate of the last call is a deletion of at least 5 characters
LargeDeletion ==
    /\ Folded.currentEvent[1].eventType = "delete"
    /\ Folded.currentEvent[1].count >= FULL_DELETE_COUNT

LineLeftBlank ==
    Len(Trim(LineAt(last.event.doc, Folded.currentEvent[1].line))) = 0

\* C28. Deletion detector: a delete aggregate with count >= 5 yields the
\* line-delete family when the line is blank after the deletion, and
\* otherwise yields 'Ctrl+Backspace' only if the word-delete detector never
\* fired or last fired more than 10 minutes before; a delete aggregate with
\* count < 5 yields neither, and the two families are never yielded
\* together.
DeletionDetector ==
    DetectorsRan =>
        /\ LineDeleteYielded <=> LargeDeletion /\ LineLeftBlank
        /\ WordDeleteYielded =>
              /\ LargeDeletion
              /\ ~LineLeftBlank
              /\ \/ last.preWordDeleteYield = 0
                 \/ last.time - last.preWordDeleteYield
                      > CTRL_BACKSPACE_DEBOUNCE
        /\ ~(LineDeleteYielded /\ WordDeleteYielded)

\* 'Ctrl+Backspace' yielded a second time, 600001 ms after the first
DeletionDetectorWitness ==
    /\ DetectorsRan
    /\ LargeDeletion
    /\ ~LineLeftBlank
    /\ WordDeleteYielded
    /\ last.preWordDeleteYield > 0
    /\ last.time - last.preWordDeleteYield = CTRL_BACKSPACE_DEBOUNCE + 1

ChoiceMade == choice.type # "none"

\* The first candidate carrying a label, when one does
FirstLabelled(label) ==
    LET i == CHOOSE i \in 1..Len(choice.shortcuts) :
                /\ choice.shortcuts[i].shortcut = label
                /\ \A j \in 1..(i - 1) : choice.shortcuts[j].shortcut # label
    IN  choice.shortcuts[i]

LabelPresent(label) ==
    \E i \in 1..Len(choice.shortcuts) : choice.shortcuts[i].shortcut = label

\* The labels preferred for the kind of the call, most preferred first
PreferredLabels ==
    CASE choice.type = "debugStart" -> <<K_F5, K_ShiftF5, K_F9, K_F10>>
      [] choice.type = "activeTerminalChange" -> <<K_CtrlBacktick, K_CtrlUpDown>>
      [] choice.type = "windowStateChange" -> <<K_AltTab>>
      [] OTHER -> <<>>

\* C29. Priority selection: for debugStart the selected shortcut is the
\* first of F5, Shift+F5, F9, F10 present among the candidates; for
\* activeTerminalChange it is 'Ctrl+`' if present, else 'Ctrl+↑ / Ctrl+↓' if
\* present; for windowStateChange it is 'Alt+Tab' if present; for textChange
\* and selectionChange it is the first candidate. A pick other than these
\* is made only when no preferred label is present.
PrioritySelection ==
    ChoiceMade =>
        /\ \A k \in 1..Len(PreferredLabels) :
              /\ LabelPresent(PreferredLabels[k])
              /\ \A j \in 1..(k - 1) : ~LabelPresent(PreferredLabels[j])
              => choice.selected = <<FirstLabelled(PreferredLabels[k])>>
        /\ choice.type \in {"textChange", "selectionChange"} =>
              choice.selected = <<choice.shortcuts[1]>>
        /\ choice.selected # <<>>
        /\ choice.selected[1] \in Range(choice.shortcuts)

\* debugStart with candidates <<F10, Ctrl+S, Shift+F5>>: Shift+F5 selected
PrioritySelectionWitness ==
    /\ choice.type = "debugStart"
    /\ Len(choice.shortcuts) = 3
    /\ choice.shortcuts[1].shortcut = K_F10
    /\ choice.shortcuts[3].shortcut = K_ShiftF5
    /\ ~LabelPresent(K_F5)
    /\ choice.selected = <<choice.shortcuts[3]>>

PollRepeated ==
    /\ poll.call.called
    /\ poll.prev.called
    /\ poll.call.newest = poll.prev.newest

NewerEventAppended == poll.call.called /\ poll.call.newest > poll.prev.newest

\* C30. No re-analysis in the polling pipeline: when analyze is called
\* again on a buffer whose newest event has not changed, the call returns
\* null; analyze skips the detectors only when the newest event is one an
\* earlier call analyzed, so a newer event appended since the last call is
\* always run through the detectors.
NoReanalysis ==
    /\ PollRepeated => ~poll.call.ran /\ poll.call.result = <<>>
    /\ poll.call.called /\ ~poll.call.ran /\ poll.call.newest > 0 =>
          poll.call.newest \in poll.prev.analyzed
    /\ NewerEventAppended => poll.call.ran

\* The aggregation state of an analyzer: the open aggregate and the history,
\* each aggregate by direction, line, count and sample text
AggregationOf(a) ==
    LET Fields(e) == [eventType |-> e.eventType, line |-> e.line,
                      count |-> e.count, text |-> e.text]
    IN  [currentEvent |-> [i \in 1..Len(a.currentEvent) |->
                              Fields(a.currentEvent[i])],
         recentEvents |-> [i \in 1..Len(a.recentEvents) |->
                              Fields(a.recentEvents[i])]]

\* The analyzer before the last call, had the last recommendation been made
\* at instant t
RecommendedAt(t) == [last.pre EXCEPT !.lastRecommendationTime = t]

EverythingLearned == {LearnedId(s.shortcut, s.action) : s \in AllShortcuts}

\* C31. Aggregation is independent of arbitration: a text edit leaves the
\* open aggregate and the history as one fold of the edit into the state
\* before it does, and as the same call would leave them with every
\* shortcut learned or none, inside the cooldown or outside it.
AggregationIndependent ==
    TextEdited =>
        /\ AggregationOf(analyzer) = AggregationOf(Folded)
        /\ \A lrn \in {{}, EverythingLearned}, t \in {0, last.time} :
              \A o \in analyzeInteraction(RecommendedAt(t), lrn, last.event,
                                          last.time) :
                  AggregationOf(o.a) = AggregationOf(analyzer)

CommentTimestampAdvanced ==
    analyzer.lastCommentRecommendationTime
        # last.pre.lastCommentRecommendationTime

WordDeleteTimestampAdvanced ==
    analyzer.lastCtrlBackSpaceRecTime # last.pre.lastCtrlBackSpaceRecTime

\* C32. A detector's last-fired timestamp (comment-toggle, word-delete)
\* advances only on an event for which the detector contributed a shortcut
\* candidate; an event that yields no candidate of the detector leaves its
\* timestamp unchanged.
TimestampAdvancesOnYield ==
    Called =>
        /\ CommentTimestampAdvanced => CommentYielded
        /\ WordDeleteTimestampAdvanced => WordDeleteYielded

\* C33. In every reachable state the shown-this-session set has at most
\* sessionRecommendationLimit elements (for a limit >= 0) and contains the
\* identity of every shortcut presented in the session, and it only ever
\* grows.
ShownSetBounded ==
    /\ [](/\ Cardinality(analyzer.shownShortcuts)
                <= analyzer.sessionRecommendationLimit
          /\ \A s \in AllShortcuts :
                pending[s] > 0 => getShortcutKey(s) \in analyzer.shownShortcuts)
    /\ [][analyzer.shownShortcuts \subseteq analyzer'.shownShortcuts]_vars

\* With the limit 2 reached by two presented shortcuts, an edit whose only
\* candidates were not shown before presents nothing
ShownSetBoundedWitness ==
    /\ analyzer.sessionRecommendationLimit = 2
    /\ Cardinality(last.pre.shownShortcuts) = 2
    /\ Cardinality({s \in AllShortcuts : pending[s] > 0}) = 2
    /\ DetectorsRan
    /\ last.detected # <<>>
    /\ \A i \in 1..Len(last.detected) :
          getShortcutKey(last.detected[i]) \notin last.pre.shownShortcuts
    /\ ~Emitted
    /\ analyzer.shownShortcuts = last.pre.shownShortcuts

TipHandled == Called /\ last.event.type = "tipOfTheDay"

\* The last call was handled less than cooldownInterval after a tip was
\* presented
WithinCooldownOfTip ==
    /\ tipPresentedAt > 0
    /\ last.time - tipPresentedAt < last.pre.cooldownInterval

\* C34. A tipOfTheDay event that presents a tip sets lastRecommendationTime:
\* a non-tip event handled less than cooldownInterval after a presented tip
\* emits nothing, while a tipOfTheDay event that presents nothing leaves
\* lastRecommendationTime as it was.
TipRestartsCooldown ==
    /\ TipHandled /\ Emitted => analyzer.lastRecommendationTime = last.time
    /\ LastNonTip /\ WithinCooldownOfTip => ~Emitted
    /\ TipHandled /\ ~Emitted =>
          analyzer.lastRecommendationTime = last.pre.lastRecommendationTime

\* A save handled 1 ms after a presented tip, with a save shortcut left to
\* present, presents nothing
TipRestartsCooldownWitness ==
    /\ LastNonTip
    /\ WithinCooldownOfTip
    /\ last.pre.lastRecommendationTime = tipPresentedAt
    /\ WouldQualify
    /\ ~Emitted

\* ------------------------------------------------------------------------
\* C35. For any single selectionChange event the cursor-to-line-start match
\* and the cursor-to-line-end match are never both produced, whatever the
\* line length, the first-non-whitespace index, the previous column and the
\* current column.
StartAndEndExclusive ==
    SelectionChanged => ~(ToStartYielded /\ ToEndYielded)

\* The cursor arrives at the end of an all-blank line, where the current
\* column, the first-non-whitespace index and the line length coincide, from
\* the middle of that line: the to-end match alone is produced.
StartAndEndExclusiveWitness ==
    /\ SelectionChanged
    /\ PrevCursorOnLine
    /\ Len(CursorLine) >= 2
    /\ FirstNonWhitespaceCharacterIndex(CursorLine) = Len(CursorLine)
    /\ last.event.active.character = Len(CursorLine)
    /\ isPrevMiddle(PrevColumn, Len(CursorLine))
    /\ ToEndYielded
    /\ ~ToStartYielded

\* ------------------------------------------------------------------------
\* C36. Once an aggregate has been closed and pushed to the aggregate
\* history, none of its fields (direction, line, count, sample text,
\* timestamp) is changed by any later event; only the open aggregate is ever
\* mutated, and the open aggregate is never itself an element of the history.
HistoryObjects == Range(objects.recentEvents)

ClosedAggregatesFrozen ==
    /\ [](objects.currentEvent \notin HistoryObjects)
    /\ [][/\ \A i \in HistoryObjects : objects'.cells[i] = objects.cells[i]
          /\ \A i \in 1..Len(objects.cells) :
                objects'.cells[i] # objects.cells[i] => i = objects.currentEvent
         ]_vars

\* What the references of the analyzer's fields hold
ObjectValues ==
    [recentEvents |-> [i \in 1..Len(objects.recentEvents) |->
                          objects.cells[objects.recentEvents[i]]],
     currentEvent |-> IF objects.currentEvent = 0
                      THEN <<>>
                      ELSE <<objects.cells[objects.currentEvent]>>]

\* With closed aggregates in the history, an edit has extended the open
\* aggregate in place
ClosedAggregatesFrozenWitness ==
    /\ TextEdited
    /\ objects.recentEvents # <<>>
    /\ analyzer.recentEvents = last.pre.recentEvents
    /\ last.pre.currentEvent # <<>>
    /\ analyzer.currentEvent # last.pre.currentEvent
    /\ ObjectValues.recentEvents = analyzer.recentEvents
    /\ ObjectValues.currentEvent = analyzer.currentEvent

====
